---- MODULE Spec2Model ----
(***************************************************************************)
(* Verification model of the eos linear shape fitting                      *)
(* (include/eos/fitting/linear_shape_fitting.hpp) and of the Python        *)
(* binding of the fitting driver (python/generate-python-bindings.cpp).    *)
(*                                                                         *)
(* Conventions.                                                            *)
(*  - Vectors and matrices are functions on 0..n-1, as in the C++ code;    *)
(*    std::vector arguments are sequences, element k of the code being     *)
(*    element k+1 of the sequence.                                         *)
(*  - float values are modelled as exact numbers: integers while the       *)
(*    matrices are assembled, rationals <<numerator, denominator>> from    *)
(*    the weighting by Omega on. Rounding is not modelled.                 *)
(*  - assert(e) is modelled as compiled in (no NDEBUG): a failed assertion *)
(*    aborts the call, which then returns nothing.                         *)
(*  - An out-of-range read of a std::vector is undefined behaviour: the    *)
(*    call either crashes or goes on with some value it did not receive.   *)
(***************************************************************************)
EXTENDS Integers, Sequences, FiniteSets, TLC

(***************************************************************************)
(* Bounds of the model.                                                    *)
(***************************************************************************)
MaxImages == 2
MaxTotalLandmarks == 3
MaxIterations == 3

(***************************************************************************)
(* Exact rational arithmetic for the float computations of the solve.      *)
(***************************************************************************)
Abs(n) == IF n < 0 THEN -n ELSE n

RECURSIVE Gcd(_, _)
Gcd(a, b) == IF b = 0 THEN a ELSE Gcd(b, a % b)

\* The rational n/d in lowest terms with a positive denominator (d # 0).
Rat(n, d) ==
    LET g == Gcd(Abs(n), Abs(d))
        s == IF d < 0 THEN -1 ELSE 1
    IN  <<(s * n) \div g, (s * d) \div g>>

RInt(n) == <<n, 1>>
RAdd(p, q) == Rat(p[1] * q[2] + q[1] * p[2], p[2] * q[2])
RSub(p, q) == Rat(p[1] * q[2] - q[1] * p[2], p[2] * q[2])
RMul(p, q) == Rat(p[1] * q[1], p[2] * q[2])
RDiv(p, q) == Rat(p[1] * q[2], p[2] * q[1])
RNeg(p) == <<-p[1], p[2]>>
RLess(p, q) == p[1] * q[2] < q[1] * p[2]

\* Sum of f[i] over i in lo..hi (integers), and the same over rationals.
RECURSIVE SumInt(_, _, _)
SumInt(f, lo, hi) == IF lo > hi THEN 0 ELSE f[lo] + SumInt(f, lo + 1, hi)

RECURSIVE SumRat(_, _, _)
SumRat(f, lo, hi) == IF lo > hi THEN RInt(0) ELSE RAdd(f[lo], SumRat(f, lo + 1, hi))

(***************************************************************************)
(* Containers.                                                             *)
(***************************************************************************)
\* An Eigen vector / matrix (rows) from a tuple: index 0 is the first entry.
Vec(t) == [i \in 0..(Len(t) - 1) |-> t[i + 1]]
Size(v) == Cardinality(DOMAIN v)

\* boost::optional<T>: <<>> is boost::none, <<v>> holds v.
none == <<>>
Some(v) == <<v>>
get_value_or(o, d) == IF o = none THEN d ELSE o[1]

\* A standard deviation, kept as the square root of a whole number so that
\* std::pow(sd, 2) is exact: Sqrt(3) is std::sqrt(3.0f).
Sqrt(n) == [squared |-> n]
Pow2(sd) == sd.squared

(***************************************************************************)
(* The shape model (morphablemodel::PcaModel), a fixture with 2 vertices   *)
(* and 2 principal components. The class itself is not part of the         *)
(* sources at hand: its accessors follow section 4.1 of the specification. *)
(***************************************************************************)
shape_mean == Vec(<<1, 0, 2, 0, 1, 1>>)

\* Rows 3v..3v+2 belong to vertex v; one column per principal component.
rescaled_pca_basis ==
    Vec(<< Vec(<<1, 0>>), Vec(<<0, 1>>), Vec(<<0, 0>>),
           Vec(<<1, 1>>), Vec(<<0, 0>>), Vec(<<0, 1>>) >>)

get_mean == shape_mean
get_num_principal_components == Size(rescaled_pca_basis[0])
get_data_dimension == Size(shape_mean)
NumVertices == get_data_dimension \div 3

\* The 3 x K block of the rescaled basis at a vertex.
get_rescaled_pca_basis_at_point(vertex_id) ==
    [r \in 0..2 |-> rescaled_pca_basis[3 * vertex_id + r]]

(***************************************************************************)
(* Values the callers pass.                                                *)
(***************************************************************************)
\* 3 x 4 affine camera matrices (cv::Mat, CV_32FC1).
CamA == Vec(<< Vec(<<1, 0, 0, 0>>), Vec(<<0, 1, 0, 0>>), Vec(<<0, 0, 0, 1>>) >>)
CamB == Vec(<< Vec(<<0, 0, 1, 1>>), Vec(<<0, 2, 0, 0>>), Vec(<<0, 0, 0, 1>>) >>)
Cameras == {CamA, CamB}
Rows(m) == Size(m)
Cols(m) == IF Size(m) = 0 THEN 0 ELSE Size(m[0])

\* A correspondence: a 2D landmark (cv::Vec2f) and the model vertex it maps to.
CorrespondenceA == [point |-> Vec(<<2, 1>>), vertex_id |-> 0]
CorrespondenceB == [point |-> Vec(<<1, 3>>), vertex_id |-> 1]

\* The correspondences of an image with n landmarks: the two in turn, or
\* the second one n times.
CorrespondenceLists(n) ==
    { [i \in 1..n |-> IF i % 2 = 1 THEN CorrespondenceA ELSE CorrespondenceB],
      [i \in 1..n |-> CorrespondenceB] }

\* A base face other than the mean, and the empty vector (Eigen::VectorXf()).
OtherFace == Vec(<<0, 1, 0, 2, 0, 1>>)
EmptyFace == Vec(<<>>)

(***************************************************************************)
(* The calls the model makes. An image is a camera and its                 *)
(* correspondences; a call lists up to MaxImages images with at most       *)
(* MaxTotalLandmarks landmarks in all.                                     *)
(***************************************************************************)
SeqsUpTo(S, n) == UNION {[1..m -> S] : m \in 0..n}

RECURSIVE SumLen(_)
SumLen(ss) == IF ss = <<>> THEN 0 ELSE Len(Head(ss)) + SumLen(Tail(ss))

Images ==
    {[camera |-> c, corr |-> cs] :
        c \in Cameras,
        cs \in UNION {CorrespondenceLists(n) : n \in 0..MaxTotalLandmarks}}

ImageLists ==
    {il \in SeqsUpTo(Images, MaxImages) :
        SumLen([j \in 1..Len(il) |-> il[j].corr]) <= MaxTotalLandmarks}

PointsOf(corr) == [i \in 1..Len(corr) |-> corr[i].point]
VertexIdsOf(corr) == [i \in 1..Len(corr) |-> corr[i].vertex_id]

\* The base_face lists tried for M images: one entry per image (all empty,
\* all given, alternating), the omitted argument (the empty list, the
\* parameter's default) and a list that is one entry short.
BaseFaceLists(M) ==
    { [j \in 1..M |-> EmptyFace],
      [j \in 1..M |-> OtherFace],
      [j \in 1..M |-> IF j % 2 = 1 THEN OtherFace ELSE EmptyFace],
      <<>>,
      [j \in 1..(IF M = 0 THEN 0 ELSE M - 1) |-> EmptyFace] }

\* lambda and the three optional arguments.
Option(l, n, d, m) ==
    [lambda |-> l, num_coefficients_to_fit |-> n,
     detector_standard_deviation |-> d, model_standard_deviation |-> m]

Options ==
    { Option(0, none, none, none),
      Option(1, none, none, none),
      Option(2, none, Some(Sqrt(1)), none),
      Option(0, Some(1), none, none),
      Option(3, Some(1), none, Some(Sqrt(1))),
      Option(2, Some(2), Some(Sqrt(4)), Some(Sqrt(1))) }

\* The arguments of fit_shape_to_landmarks_linear_multi (the morphable model
\* is the fixture above).
MultiArgs(cams, lms, vids, faces, o) ==
    [affine_camera_matrix |-> cams, landmarks |-> lms, vertex_ids |-> vids,
     base_face |-> faces, lambda |-> o.lambda,
     num_coefficients_to_fit |-> o.num_coefficients_to_fit,
     detector_standard_deviation |-> o.detector_standard_deviation,
     model_standard_deviation |-> o.model_standard_deviation]

CallOf(il, faces, o) ==
    MultiArgs([j \in 1..Len(il) |-> il[j].camera],
              [j \in 1..Len(il) |-> PointsOf(il[j].corr)],
              [j \in 1..Len(il) |-> VertexIdsOf(il[j].corr)],
              faces, o)

\* Calls whose camera, landmark and vertex-id lists agree in every length.
PlainOptions == Option(1, none, none, none)

\* The base_face lists and options tried together for M images: every
\* list with the plain options, every option with the list of M empty
\* vectors.
FacesAndOptions(M) ==
    (BaseFaceLists(M) \X {PlainOptions})
    \cup ({[j \in 1..M |-> EmptyFace]} \X Options)

\* Calls whose camera, landmark and vertex-id lists agree in every length.
MatchedCalls ==
    UNION {{CallOf(il, fo[1], fo[2]) : fo \in FacesAndOptions(Len(il))} :
              il \in ImageLists}

DropLast(q) == SubSeq(q, 1, Len(q) - 1)

\* Calls with a cardinality defect: one list is an image short, or one
\* image has a vertex id less or more than it has landmarks.
MismatchedCalls ==
    UNION {
        LET a == CallOf(il, [j \in 1..Len(il) |-> EmptyFace], PlainOptions)
            M == Len(il)
        IN  (IF M = 0 THEN {} ELSE
               { [a EXCEPT !.affine_camera_matrix = DropLast(@)],
                 [a EXCEPT !.landmarks = DropLast(@)],
                 [a EXCEPT !.vertex_ids = DropLast(@)] })
            \cup { [a EXCEPT !.vertex_ids[j] = DropLast(@)] :
                      j \in {i \in 1..M : Len(il[i].corr) > 0} }
            \cup { [a EXCEPT !.vertex_ids[j] = Append(@, 0)] : j \in 1..M }
        : il \in ImageLists }

MultiCalls == MatchedCalls \cup MismatchedCalls

\* The arguments of the single-image fit_shape_to_landmarks_linear.
LinearCalls ==
    {[affine_camera_matrix |-> im.camera, landmarks |-> PointsOf(im.corr),
      vertex_ids |-> VertexIdsOf(im.corr), base_face |-> face, lambda |-> o.lambda,
      num_coefficients_to_fit |-> o.num_coefficients_to_fit,
      detector_standard_deviation |-> o.detector_standard_deviation,
      model_standard_deviation |-> o.model_standard_deviation] :
        im \in Images, face \in {EmptyFace, OtherFace}, o \in Options}
    \cup
    {[affine_camera_matrix |-> im.camera, landmarks |-> PointsOf(im.corr),
      vertex_ids |-> Append(VertexIdsOf(im.corr), 0), base_face |-> EmptyFace,
      lambda |-> PlainOptions.lambda,
      num_coefficients_to_fit |-> PlainOptions.num_coefficients_to_fit,
      detector_standard_deviation |-> PlainOptions.detector_standard_deviation,
      model_standard_deviation |-> PlainOptions.model_standard_deviation] :
        im \in Images}

(***************************************************************************)
(* fit_shape_to_landmarks_linear_multi: the values fixed at entry.         *)
(***************************************************************************)
\* Mutant: the camera list is left out of the assertion.
CardinalitiesAgree_NoCameras(a) == Len(a.landmarks) = Len(a.vertex_ids)

\* Lines 64-65: the assertion on the per-image lists.
CardinalitiesAgree(a) ==
    /\ Len(a.affine_camera_matrix) = Len(a.landmarks)
    /\ Len(a.landmarks) = Len(a.vertex_ids)

\* Mutant: num_coefficients_to_fit is ignored.
num_coeffs_to_fit_AllComponents(a) == get_num_principal_components

num_coeffs_to_fit(a) ==
    get_value_or(a.num_coefficients_to_fit, get_num_principal_components)

num_images(a) == Len(a.affine_camera_matrix)

\* Mutants: lambda is left as passed; lambda += num_images.
AdjustedLambda_Unadjusted(a) == a.lambda
AdjustedLambda_Added(a) == a.lambda + num_images(a)

\* Lines 73-74: lambda *= num_images.
AdjustedLambda(a) == a.lambda * num_images(a)

\* Lines 76-79, over the landmark lists (not over num_images).
total_num_landmarks_dimension(a) == SumLen(a.landmarks)

\* Mutant: the detector's default is a standard deviation of 3, not sqrt(3).
sigma_squared_2D_DefaultThree(a) ==
    Pow2(get_value_or(a.detector_standard_deviation, Sqrt(9)))
        + Pow2(get_value_or(a.model_standard_deviation, Sqrt(0)))

\* Line 94.
sigma_squared_2D(a) ==
    Pow2(get_value_or(a.detector_standard_deviation, Sqrt(3)))
        + Pow2(get_value_or(a.model_standard_deviation, Sqrt(0)))

\* Line 96: the diagonal of Omega.
OmegaOf(a) ==
    [r \in 0..(3 * total_num_landmarks_dimension(a) - 1) |-> Rat(1, sigma_squared_2D(a))]

Zero(rows, cols) == [r \in 0..(rows - 1) |-> [c \in 0..(cols - 1) |-> 0]]
Ones(n) == [r \in 0..(n - 1) |-> 1]

(***************************************************************************)
(* The local state of one call, as a record, and the body of the loop over *)
(* the images (lines 105-154). wrote records, for every entry written, the *)
(* image whose iteration wrote it.                                         *)
(***************************************************************************)
\* The locals as they stand after line 103.
LocalsAtEntry(a) ==
    [V_hat_h |-> Zero(4 * total_num_landmarks_dimension(a), num_coeffs_to_fit(a)),
     V_hat_h_row_index |-> 0,
     P_coefficients |-> <<>>,
     P_index |-> 0,
     y |-> Ones(3 * total_num_landmarks_dimension(a)),
     y_index |-> 0,
     v_bar |-> Ones(4 * total_num_landmarks_dimension(a)),
     v_bar_index |-> 0,
     Omega |-> OmegaOf(a),
     base_face |-> a.base_face,
     wrote |-> {}]

\* Mutant: the row index moves on by 3, leaving no row of zeros.
RECURSIVE BasisLoop_NoSkippedRow(_, _, _, _, _)
BasisLoop_NoSkippedRow(s, a, k, i, num_landmarks) ==
    IF i >= num_landmarks THEN s
    ELSE LET basis_rows_ == get_rescaled_pca_basis_at_point(a.vertex_ids[k + 1][i + 1])
             row == s.V_hat_h_row_index
             cols == Cols(s.V_hat_h)
         IN  BasisLoop_NoSkippedRow(
               [s EXCEPT
                 !.V_hat_h = [r \in DOMAIN @ |->
                                IF r \in row..(row + 2)
                                THEN [c \in 0..(cols - 1) |-> basis_rows_[r - row][c]]
                                ELSE @[r]],
                 !.V_hat_h_row_index = @ + 3,
                 !.wrote = @ \cup {<<"V_hat_h", r, k>> : r \in row..(row + 2)}],
               a, k, i + 1, num_landmarks)

\* Lines 120-124.
RECURSIVE BasisLoop(_, _, _, _, _)
BasisLoop(s, a, k, i, num_landmarks) ==
    IF i >= num_landmarks THEN s
    ELSE LET basis_rows_ == get_rescaled_pca_basis_at_point(a.vertex_ids[k + 1][i + 1])
             row == s.V_hat_h_row_index
             cols == Cols(s.V_hat_h)
         IN  BasisLoop(
               [s EXCEPT
                 !.V_hat_h = [r \in DOMAIN @ |->
                                IF r \in row..(row + 2)
                                THEN [c \in 0..(cols - 1) |-> basis_rows_[r - row][c]]
                                ELSE @[r]],
                 !.V_hat_h_row_index = @ + 4,
                 !.wrote = @ \cup {<<"V_hat_h", r, k>> : r \in row..(row + 2)}],
               a, k, i + 1, num_landmarks)

\* Mutant: the blocks are 3 columns apart, as they are 3 rows apart.
CameraTriplets_ThreeColumnsApart(camera, P_index) ==
    LET cell(n) == <<n \div Cols(camera), n % Cols(camera)>>
    IN  [n \in 1..(Rows(camera) * Cols(camera)) |->
            [row |-> 3 * P_index + cell(n - 1)[1],
             col |-> 3 * P_index + cell(n - 1)[2],
             value |-> camera[cell(n - 1)[1]][cell(n - 1)[2]]]]

\* Lines 128-132: the triplets of one camera block.
CameraTriplets(camera, P_index) ==
    LET cell(n) == <<n \div Cols(camera), n % Cols(camera)>>
    IN  [n \in 1..(Rows(camera) * Cols(camera)) |->
            [row |-> 3 * P_index + cell(n - 1)[1],
             col |-> 4 * P_index + cell(n - 1)[2],
             value |-> camera[cell(n - 1)[1]][cell(n - 1)[2]]]]

\* Mutant: the block is placed by the landmark's index i within its image
\* instead of the running P_index.
RECURSIVE CameraLoop_PerImageIndex(_, _, _, _, _)
CameraLoop_PerImageIndex(s, a, k, i, num_landmarks) ==
    IF i >= num_landmarks THEN s
    ELSE LET ts == CameraTriplets(a.affine_camera_matrix[k + 1], i)
         IN  CameraLoop_PerImageIndex(
               [s EXCEPT
                 !.P_coefficients = @ \o ts,
                 !.P_index = @ + 1,
                 !.wrote = @ \cup {<<"P", <<ts[n].row, ts[n].col>>, k>> : n \in DOMAIN ts}],
               a, k, i + 1, num_landmarks)

\* Lines 127-134.
RECURSIVE CameraLoop(_, _, _, _, _)
CameraLoop(s, a, k, i, num_landmarks) ==
    IF i >= num_landmarks THEN s
    ELSE LET ts == CameraTriplets(a.affine_camera_matrix[k + 1], s.P_index)
         IN  CameraLoop(
               [s EXCEPT
                 !.P_coefficients = @ \o ts,
                 !.P_index = @ + 1,
                 !.wrote = @ \cup {<<"P", <<ts[n].row, ts[n].col>>, k>> : n \in DOMAIN ts}],
               a, k, i + 1, num_landmarks)

\* Mutant: y is indexed by the landmark's index i within its image, and
\* y_index stays where it was.
RECURSIVE LandmarkLoop_PerImageIndex(_, _, _, _, _)
LandmarkLoop_PerImageIndex(s, a, k, i, num_landmarks) ==
    IF i >= num_landmarks THEN s
    ELSE LET at == 3 * i
             lm == a.landmarks[k + 1][i + 1]
         IN  LandmarkLoop_PerImageIndex(
               [s EXCEPT
                 !.y = [r \in DOMAIN @ |->
                          IF r = at THEN lm[0] ELSE IF r = at + 1 THEN lm[1] ELSE @[r]],
                 !.wrote = @ \cup {<<"y", at, k>>, <<"y", at + 1, k>>}],
               a, k, i + 1, num_landmarks)

\* Lines 139-144.
RECURSIVE LandmarkLoop(_, _, _, _, _)
LandmarkLoop(s, a, k, i, num_landmarks) ==
    IF i >= num_landmarks THEN s
    ELSE LET at == 3 * s.y_index
             lm == a.landmarks[k + 1][i + 1]
         IN  LandmarkLoop(
               [s EXCEPT
                 !.y = [r \in DOMAIN @ |->
                          IF r = at THEN lm[0] ELSE IF r = at + 1 THEN lm[1] ELSE @[r]],
                 !.y_index = @ + 1,
                 !.wrote = @ \cup {<<"y", at, k>>, <<"y", at + 1, k>>}],
               a, k, i + 1, num_landmarks)

\* Mutant: all three entries are the x coordinate of the vertex.
RECURSIVE BaseLoop_FirstCoordinateOnly(_, _, _, _, _, _)
BaseLoop_FirstCoordinateOnly(s, a, k, i, num_landmarks, face) ==
    IF i >= num_landmarks THEN s
    ELSE LET at == 4 * s.v_bar_index
             v == a.vertex_ids[k + 1][i + 1]
         IN  BaseLoop_FirstCoordinateOnly(
               [s EXCEPT
                 !.v_bar = [r \in DOMAIN @ |->
                              IF r \in at..(at + 2) THEN face[v * 3] ELSE @[r]],
                 !.v_bar_index = @ + 1,
                 !.wrote = @ \cup {<<"v_bar", r, k>> : r \in at..(at + 2)}],
               a, k, i + 1, num_landmarks, face)

\* Lines 147-153; face is base_face[k].
RECURSIVE BaseLoop(_, _, _, _, _, _)
BaseLoop(s, a, k, i, num_landmarks, face) ==
    IF i >= num_landmarks THEN s
    ELSE LET at == 4 * s.v_bar_index
             v == a.vertex_ids[k + 1][i + 1]
         IN  BaseLoop(
               [s EXCEPT
                 !.v_bar = [r \in DOMAIN @ |->
                              IF r \in at..(at + 2) THEN face[v * 3 + (r - at)] ELSE @[r]],
                 !.v_bar_index = @ + 1,
                 !.wrote = @ \cup {<<"v_bar", r, k>> : r \in at..(at + 2)}],
               a, k, i + 1, num_landmarks, face)

\* Mutant: the assertion accepts spare vertex ids.
ImageCardinalitiesAgree_AtLeast(a, k) == Len(a.landmarks[k + 1]) <= Len(a.vertex_ids[k + 1])

\* Line 108: the assertion at the head of the iteration for image k.
ImageCardinalitiesAgree(a, k) == Len(a.landmarks[k + 1]) = Len(a.vertex_ids[k + 1])

\* Lines 112-115: an empty base face is replaced by the mean.
SubstituteMean(face) == IF Size(face) = 0 THEN get_mean ELSE face

\* Lines 110-153 for image k, with face the value base_face[k] holds once
\* lines 112-115 have run.
LoopBody(s, a, k, face) ==
    LET num_landmarks == Len(a.landmarks[k + 1])
        s1 == BasisLoop(s, a, k, 0, num_landmarks)
        s2 == CameraLoop(s1, a, k, 0, num_landmarks)
        s3 == LandmarkLoop(s2, a, k, 0, num_landmarks)
    IN  BaseLoop(s3, a, k, 0, num_landmarks, face)

\* base_face[k] can be read: the list holds an entry for image k.
HasBaseFace(s, k) == k < Len(s.base_face)

\* What the iteration for image k reads of the model is in the model: the
\* block of line 121 has no more columns than the basis, and the rows of
\* line 120 and the entries of line 150 are those of a vertex of the model.
\* An image without landmarks reads nothing.
ModelReadsInRange(a, k) ==
    Len(a.landmarks[k + 1]) > 0 =>
       /\ num_coeffs_to_fit(a) <= get_num_principal_components
       /\ \A i \in DOMAIN a.vertex_ids[k + 1] :
             a.vertex_ids[k + 1][i] \in 0..(NumVertices - 1)

\* One iteration with base_face[k] in range.
Iteration(s, a, k) ==
    LET face == SubstituteMean(s.base_face[k + 1])
    IN  LoopBody([s EXCEPT !.base_face[k + 1] = face], a, k, face)

(***************************************************************************)
(* Lines 156-168: the normal equations and their solution.                 *)
(***************************************************************************)
\* Line 157: Eigen's setFromTriplets adds up the triplets of one cell.
RECURSIVE AddTriplets(_, _, _)
AddTriplets(coeff, ts, n) ==
    IF n > Len(ts) THEN coeff
    ELSE LET cell == <<ts[n].row, ts[n].col>>
         IN  AddTriplets(IF cell \in DOMAIN coeff
                         THEN [coeff EXCEPT ![cell] = @ + ts[n].value]
                         ELSE coeff @@ (cell :> ts[n].value),
                         ts, n + 1)

setFromTriplets(rows, cols, ts) ==
    [rows |-> rows, cols |-> cols, coeff |-> AddTriplets(<<>>, ts, 1)]

Coeff(P, r, c) == IF <<r, c>> \in DOMAIN P.coeff THEN P.coeff[<<r, c>>] ELSE 0

\* Line 160: A = P * V_hat_h.
TimesMatrix(P, V) ==
    [r \in 0..(P.rows - 1) |->
        [j \in 0..(Cols(V) - 1) |->
            SumInt([c \in 0..(P.cols - 1) |-> Coeff(P, r, c) * V[c][j]], 0, P.cols - 1)]]

\* Line 161: b = P * v_bar - y.
TimesVectorMinus(P, v, y0) ==
    [r \in 0..(P.rows - 1) |->
        SumInt([c \in 0..(P.cols - 1) |-> Coeff(P, r, c) * v[c]], 0, P.cols - 1) - y0[r]]

\* A^T * Omega * A, an n x n matrix of rationals.
AtOmegaA(A, Omega, n) ==
    [i \in 0..(n - 1) |-> [j \in 0..(n - 1) |->
        SumRat([r \in DOMAIN A |-> RMul(RInt(A[r][i] * A[r][j]), Omega[r])],
               0, Size(A) - 1)]]

\* Mutant: the weight is taken off the diagonal.
Regularised_Subtracted(M, weight, n) ==
    [i \in 0..(n - 1) |-> [j \in 0..(n - 1) |->
        IF i = j THEN RSub(M[i][j], RInt(weight)) ELSE M[i][j]]]

\* Line 162.
Regularised(M, weight, n) ==
    [i \in 0..(n - 1) |-> [j \in 0..(n - 1) |->
        IF i = j THEN RAdd(M[i][j], RInt(weight)) ELSE M[i][j]]]

\* Line 163: rhs = -A^T * Omega * b.
MinusAtOmegab(A, Omega, b, n) ==
    [i \in 0..(n - 1) |->
        RNeg(SumRat([r \in DOMAIN A |-> RMul(RInt(A[r][i] * b[r]), Omega[r])],
                    0, Size(A) - 1))]

Det2(M) == RSub(RMul(M[0][0], M[1][1]), RMul(M[0][1], M[1][0]))

\* The matrix of the normal equations has an inverse.  More than two
\* unknowns are fitted only by a call without landmarks, whose matrix is
\* lambda times the identity: the last case is that of a diagonal matrix.
Invertible(M, n) ==
    CASE n = 0 -> TRUE
      [] n = 1 -> M[0][0] # RInt(0)
      [] n = 2 -> Det2(M) # RInt(0)
      [] OTHER -> \A i \in 0..(n - 1) : M[i][i] # RInt(0)

\* The solution of M x = rhs for an invertible M.
ExactSolve(M, rhs, n) ==
    CASE n = 0 -> Vec(<<>>)
      [] n = 1 -> Vec(<<RDiv(rhs[0], M[0][0])>>)
      [] n = 2 ->
           Vec(<< RDiv(RSub(RMul(rhs[0], M[1][1]), RMul(M[0][1], rhs[1])), Det2(M)),
                  RDiv(RSub(RMul(M[0][0], rhs[1]), RMul(rhs[0], M[1][0])), Det2(M)) >>)
      [] OTHER -> [i \in 0..(n - 1) |-> RDiv(rhs[i], M[i][i])]

\* What the pivoted QR yields for an M of deficient rank: for rank 1 the
\* least-squares solution on the pivot column (the column of largest norm,
\* the first of equals) with 0 for the other unknown, for the zero matrix
\* (the one case of more than two unknowns) the zero vector.
RankDeficientSolve(M, rhs, n) ==
    CASE n = 1 -> Vec(<<RInt(0)>>)
      [] n = 2 ->
           LET sq(j) == RAdd(RMul(M[0][j], M[0][j]), RMul(M[1][j], M[1][j]))
               p == IF RLess(sq(0), sq(1)) THEN 1 ELSE 0
               dot == RAdd(RMul(M[0][p], rhs[0]), RMul(M[1][p], rhs[1]))
           IN  IF sq(p) = RInt(0) THEN Vec(<<RInt(0), RInt(0)>>)
               ELSE [j \in 0..1 |-> IF j = p THEN RDiv(dot, sq(p)) ELSE RInt(0)]
      [] OTHER -> [i \in 0..(n - 1) |-> RInt(0)]

\* Mutant: a matrix without an inverse yields no coefficients.
colPivHouseholderQrSolve_NothingIfSingular(M, rhs, n) ==
    IF Invertible(M, n) THEN ExactSolve(M, rhs, n) ELSE Vec(<<>>)

\* Line 166: colPivHouseholderQr().solve(rhs) in exact arithmetic. It never
\* fails.
colPivHouseholderQrSolve(M, rhs, n) ==
    IF Invertible(M, n) THEN ExactSolve(M, rhs, n) ELSE RankDeficientSolve(M, rhs, n)

\* Lines 156-166 from the assembled locals and the adjusted lambda.
Solve(s, a, weight) ==
    LET N == total_num_landmarks_dimension(a)
        n == num_coeffs_to_fit(a)
        P0 == setFromTriplets(3 * N, 4 * N, s.P_coefficients)
        A == TimesMatrix(P0, s.V_hat_h)
        b == TimesVectorMinus(P0, s.v_bar, s.y)
        M == Regularised(AtOmegaA(A, s.Omega, n), weight, n)
        r == MinusAtOmegab(A, s.Omega, b, n)
    IN  [P |-> P0, A |-> A, b |-> b, AtOmegaAReg |-> M, rhs |-> r,
         c_s |-> colPivHouseholderQrSolve(M, r, n)]

(***************************************************************************)
(* Lines 193-198: fit_shape_to_landmarks_linear wraps its arguments in     *)
(* one-element lists and calls the multi-image function.                   *)
(***************************************************************************)
\* Mutant: model_standard_deviation is not forwarded.
fit_shape_to_landmarks_linear_DropsModelSd(la) ==
    [affine_camera_matrix |-> <<la.affine_camera_matrix>>,
     landmarks |-> <<la.landmarks>>,
     vertex_ids |-> <<la.vertex_ids>>,
     base_face |-> <<la.base_face>>,
     lambda |-> la.lambda,
     num_coefficients_to_fit |-> la.num_coefficients_to_fit,
     detector_standard_deviation |-> la.detector_standard_deviation,
     model_standard_deviation |-> none]

fit_shape_to_landmarks_linear(la) ==
    [affine_camera_matrix |-> <<la.affine_camera_matrix>>,
     landmarks |-> <<la.landmarks>>,
     vertex_ids |-> <<la.vertex_ids>>,
     base_face |-> <<la.base_face>>,
     lambda |-> la.lambda,
     num_coefficients_to_fit |-> la.num_coefficients_to_fit,
     detector_standard_deviation |-> la.detector_standard_deviation,
     model_standard_deviation |-> la.model_standard_deviation]

(***************************************************************************)
(* The Python function fit_shape_and_pose (generate-python-bindings.cpp,    *)
(* lines 248 to 265) and the fitting driver it calls. The driver,           *)
(* fit_shape_and_pose_multi, is defined in fitting.hpp; it is modelled      *)
(* here from section 4.5 of the specification, the pose estimator it calls  *)
(* from section 4.2. A coefficient vector the driver has re-solved is kept  *)
(* by its history (Fitted), a pose by the round that estimated it.          *)
(***************************************************************************)

\* Section 4.2: the pose estimator needs at least this many correspondences.
MinCorrespondences == 4

\* The expression basis of the caller.
blendshapes == <<"expression">>

\* The landmark at position i (from 0) of image j (from 0), a glm::vec2.
LandmarkAt(j, i) == [x |-> i + 1, y |-> j + 1]
LandmarkId(i) == <<"id", i>>

\* The landmark lists of up to MaxImages images, each one long enough for
\* the pose estimator or one short of it; the identifiers likewise.
LandmarkCounts == {MinCorrespondences - 1, MinCorrespondences}
Landmarkss ==
    {[j \in 1..Len(counts) |-> [i \in 1..counts[j] |-> LandmarkAt(j - 1, i - 1)]] :
        counts \in SeqsUpTo(LandmarkCounts, MaxImages)}
LandmarkIdss == {[i \in 1..n |-> LandmarkId(i - 1)] : n \in LandmarkCounts}

\* The seeds a caller may pass: none, or a vector of its own.
ShapeSeeds == {<<>>, <<3, -1>>}
BlendshapeSeeds(M) == {<<>>, [j \in 1..M |-> <<2>>]}

BindingCall(ls, ids, c, n, f, ps, bs) ==
    [landmarkss |-> ls, landmark_ids |-> ids, contour_landmarks |-> c,
     num_iterations |-> n, num_shape_coefficients_to_fit |-> f, lambda |-> 30,
     pca_shape_coefficients |-> ps, blendshape_coefficients |-> bs,
     omitted |-> {}]

\* Line 265: the arguments a Python caller may omit, and the values they
\* then take.
OptionalArguments ==
    {"num_iterations", "num_shape_coefficients_to_fit", "lambda",
     "pca_shape_coefficients", "blendshape_coefficients"}

\* Mutant: lambda defaults to the 3.0 of the solver.
PyArgDefaults_SolverLambda ==
    [num_iterations |-> 5, num_shape_coefficients_to_fit |-> -1, lambda |-> 3,
     pca_shape_coefficients |-> <<>>, blendshape_coefficients |-> <<>>]

PyArgDefaults ==
    [num_iterations |-> 5, num_shape_coefficients_to_fit |-> -1, lambda |-> 30,
     pca_shape_coefficients |-> <<>>, blendshape_coefficients |-> <<>>]

\* The parameters of the binding for a call that passes the arguments of b
\* except those named in o.
ApplyDefaults(b, o) ==
    [f \in DOMAIN b |->
       IF f = "omitted" THEN o
       ELSE IF f \in o THEN PyArgDefaults[f]
       ELSE b[f]]

\* Every image has as many landmarks as there are identifiers.
MatchedBindingCalls ==
    UNION {{BindingCall(ls, ids, c, n, f, ps, bs) :
              c \in BOOLEAN, n \in 0..MaxIterations, f \in {-1, 0, 1},
              ps \in ShapeSeeds, bs \in BlendshapeSeeds(Len(ls))} :
           <<ls, ids>> \in {q \in Landmarkss \X LandmarkIdss :
                              \A j \in DOMAIN q[1] : Len(q[1][j]) = Len(q[2])}}

\* Some image has not, or there is no image.
MismatchedBindingCalls ==
    {BindingCall(q[1], q[2], FALSE, n, -1, <<>>, <<>>) :
        q \in {r \in Landmarkss \X LandmarkIdss :
                 \E j \in DOMAIN r[1] : Len(r[1][j]) # Len(r[2])},
        n \in {0, 1}}
    \cup {BindingCall(<<>>, ids, FALSE, 1, -1, <<>>, <<>>) : ids \in LandmarkIdss}

BindingCalls == MatchedBindingCalls \cup MismatchedBindingCalls

NoBindingArgs == BindingCall(<<>>, <<>>, FALSE, 0, -1, <<>>, <<>>)

\* Line 249: the assertion of the binding.
BindingAssertion(b) ==
    Len(b.landmarkss) > 0 /\ Len(b.landmarkss[1]) = Len(b.landmark_ids)

\* Line 252: the sentinel -1 becomes an empty optional.
num_shape_coefficients_opt(b) ==
    IF b.num_shape_coefficients_to_fit = -1 THEN none
    ELSE Some(b.num_shape_coefficients_to_fit)

\* Line 258 reads landmark_ids[i] for every i below landmarkss[j].size().
IdReadsInRange(b) ==
    \A j \in DOMAIN b.landmarkss : Len(b.landmarkss[j]) <= Len(b.landmark_ids)

\* Mutant: the collections are filled from the last image to the first.
landmark_collections_Reversed(b, stray) ==
    [j \in DOMAIN b.landmarkss |->
       [i \in DOMAIN b.landmarkss[Len(b.landmarkss) + 1 - j] |->
          [name |-> IF i <= Len(b.landmark_ids) THEN b.landmark_ids[i] ELSE stray,
           coordinates |-> <<b.landmarkss[Len(b.landmarkss) + 1 - j][i].x,
                             b.landmarkss[Len(b.landmarkss) + 1 - j][i].y>>]]]

\* Lines 253-261: one collection per image, of Landmark{name, coordinates};
\* a read beyond landmark_ids yields the identifier stray.
landmark_collections(b, stray) ==
    [j \in DOMAIN b.landmarkss |->
       [i \in DOMAIN b.landmarkss[j] |->
          [name |-> IF i <= Len(b.landmark_ids) THEN b.landmark_ids[i] ELSE stray,
           coordinates |-> <<b.landmarkss[j][i].x, b.landmarkss[j][i].y>>]]]

\* Mutant: num_shape_coefficients_to_fit is passed where num_iterations
\* belongs.
fit_shape_and_pose_multi_call_Swapped(b, stray) ==
    [landmarks |-> landmark_collections(b, stray),
     contour_landmarks |-> b.contour_landmarks,
     num_iterations |-> b.num_shape_coefficients_to_fit,
     num_shape_coefficients_to_fit |-> num_shape_coefficients_opt(b),
     lambda |-> b.lambda,
     initial_rendering_params |-> none]

\* Line 263: what the binding passes to fit_shape_and_pose_multi, besides
\* the model, the mapper, the image sizes, the edge topology and the model
\* contour, and besides the two coefficient vectors and fitted_image_points
\* it hands over by reference.
fit_shape_and_pose_multi_call(b, stray) ==
    [landmarks |-> landmark_collections(b, stray),
     contour_landmarks |-> b.contour_landmarks,
     num_iterations |-> b.num_iterations,
     num_shape_coefficients_to_fit |-> num_shape_coefficients_opt(b),
     lambda |-> b.lambda,
     initial_rendering_params |-> none]

NoDriverArgs == fit_shape_and_pose_multi_call(NoBindingArgs, LandmarkId(0))

\* A coefficient vector by its history: what `rounds` re-solves made of the
\* vector `start`. With rounds = 0 it is the vector start itself.
Fitted(start, rounds) == [start |-> start, rounds |-> rounds]

\* Section 4.5, step 1: the seed the caller supplied, or all zero.
Zeros(n) == [i \in 1..n |-> 0]
InitialShapeCoefficients(seed) ==
    IF seed = <<>> THEN Zeros(get_num_principal_components) ELSE seed
InitialBlendshapeCoefficients(seeds, M) ==
    IF seeds = <<>> THEN [j \in 1..M |-> Zeros(Len(blendshapes))] ELSE seeds

\* Section 4.2: the estimator fails on fewer than four correspondences.
UnderdeterminedSystem(landmark_collection) ==
    Len(landmark_collection) < MinCorrespondences

\* Section 4.5, step 3: what a solve is given, for every image its pose
\* (the camera matrix), its correspondences and its landmarks.
SolverInput(r, poses, corrs, landmarks) ==
    [round |-> r, cameras |-> poses, correspondences |-> corrs, landmarks |-> landmarks]
NotSolved == SolverInput(0, <<>>, <<>>, <<>>)

(***************************************************************************)
(* The state: one call of the solver, from the caller to its return.       *)
(***************************************************************************)
VARIABLES
    pc,                  \* "caller", "entry", "loop", "done", "aborted", "crashed"
    linear_call,         \* the arguments of fit_shape_to_landmarks_linear, if called
    args,                \* the arguments of fit_shape_to_landmarks_linear_multi
    lambda,              \* the parameter lambda, adjusted at line 74
    k,                   \* the image the loop of line 105 is at
    V_hat_h, V_hat_h_row_index,
    P_coefficients, P_index,
    y, y_index,
    v_bar, v_bar_index,
    Omega,               \* the diagonal of the weights, line 96
    base_face,           \* the callee's copy of the base faces
    wrote,               \* <<matrix, entry, image>> for every entry written
    P, AtOmegaAReg, rhs, \* the matrices of lines 157-163
    result               \* what the call returned, if it returned

\* Two calls of fit_shape_to_landmarks_linear_multi made by two threads of
\* one process: for each thread what the variables above are for one call.
VARIABLE threads

\* The state of a call of the Python function fit_shape_and_pose.
VARIABLES
    dpc,                 \* "python", "binding", "initial", "pose", "contour",
                         \* "solve", "terminal", "returned", "aborted",
                         \* "crashed", "failed"
    binding_args,        \* the arguments of the Python call
    driver_args,         \* what line 263 passes to fit_shape_and_pose_multi
    pca_shape_coefficients,   \* the binding's vector, handed over by reference
    blendshape_coefficients,  \* likewise, one vector per image
    round,               \* the rounds completed
    image,               \* the image the round is at
    current_pose,        \* per image: the pose, if one has been estimated
    correspondences,     \* per image: the round whose pose resolved them
    converged,           \* whether the last solve left the coefficients in place
    pose_estimates,      \* how many times the pose estimator has run
    solves,              \* how many times the solver has run
    solved_with,         \* what the last solve was given
    py_result            \* what the Python call returned, if it returned

\* The state of a call of one of the other functions and methods of the
\* Python module.
VARIABLES
    py_pc,               \* "python", "callee", "returned", "raised", "aborted", "failed",
                         \* "pickled"
    py_call,             \* the function called and its arguments
    py_passed,           \* what the binding passes to the function it wraps
    py_object,           \* the C++ object a method acts on
    py_return            \* what the call returned, if it returned

driver ==
    <<dpc, binding_args, driver_args, pca_shape_coefficients, blendshape_coefficients,
      round, image, current_pose, correspondences, converged, pose_estimates, solves,
      solved_with, py_result>>

locals ==
    <<V_hat_h, V_hat_h_row_index, P_coefficients, P_index, y, y_index,
      v_bar, v_bar_index, Omega, base_face, wrote>>
solved == <<P, AtOmegaAReg, rhs, result>>
solver == <<pc, linear_call, args, lambda, k, locals, solved>>
python == <<py_pc, py_call, py_passed, py_object, py_return>>
vars == <<solver, driver, threads, python>>

Locals ==
    [V_hat_h |-> V_hat_h, V_hat_h_row_index |-> V_hat_h_row_index,
     P_coefficients |-> P_coefficients, P_index |-> P_index,
     y |-> y, y_index |-> y_index, v_bar |-> v_bar, v_bar_index |-> v_bar_index,
     Omega |-> Omega,
     base_face |-> base_face, wrote |-> wrote]

SetLocals(s) ==
    /\ V_hat_h' = s.V_hat_h
    /\ V_hat_h_row_index' = s.V_hat_h_row_index
    /\ P_coefficients' = s.P_coefficients
    /\ P_index' = s.P_index
    /\ y' = s.y
    /\ y_index' = s.y_index
    /\ v_bar' = s.v_bar
    /\ v_bar_index' = s.v_bar_index
    /\ Omega' = s.Omega
    /\ base_face' = s.base_face
    /\ wrote' = s.wrote

\* Before line 83 no matrix exists.
NoLocals ==
    [V_hat_h |-> <<>>, V_hat_h_row_index |-> 0, P_coefficients |-> <<>>, P_index |-> 0,
     y |-> <<>>, y_index |-> 0, v_bar |-> <<>>, v_bar_index |-> 0, Omega |-> <<>>,
     base_face |-> <<>>, wrote |-> {}]

NoMatrix == [rows |-> 0, cols |-> 0, coeff |-> <<>>]

NoArgs == MultiArgs(<<>>, <<>>, <<>>, <<>>, Option(0, none, none, none))

\* The two threads, and a thread that has not called yet.
Threads == {1, 2}
NotCalled ==
    [pc |-> "caller", args |-> NoArgs, lambda |-> 0, k |-> 0, locals |-> NoLocals,
     result |-> none]

\* No function of the module has been called.
NoPythonCall == [function |-> "none"]

Init ==
    /\ pc = "caller"
    /\ py_pc = "python"
    /\ py_call = NoPythonCall
    /\ py_passed = <<>>
    /\ py_object = <<>>
    /\ py_return = <<>>
    /\ linear_call = none
    /\ args = NoArgs
    /\ lambda = 0
    /\ k = 0
    /\ V_hat_h = NoLocals.V_hat_h
    /\ V_hat_h_row_index = NoLocals.V_hat_h_row_index
    /\ P_coefficients = NoLocals.P_coefficients
    /\ P_index = NoLocals.P_index
    /\ y = NoLocals.y
    /\ y_index = NoLocals.y_index
    /\ v_bar = NoLocals.v_bar
    /\ v_bar_index = NoLocals.v_bar_index
    /\ Omega = NoLocals.Omega
    /\ base_face = NoLocals.base_face
    /\ wrote = NoLocals.wrote
    /\ P = NoMatrix
    /\ AtOmegaAReg = <<>>
    /\ rhs = <<>>
    /\ result = none
    /\ dpc = "python"
    /\ binding_args = NoBindingArgs
    /\ driver_args = NoDriverArgs
    /\ pca_shape_coefficients = Fitted(<<>>, 0)
    /\ blendshape_coefficients = Fitted(<<>>, 0)
    /\ round = 0
    /\ image = 0
    /\ current_pose = <<>>
    /\ correspondences = <<>>
    /\ converged = FALSE
    /\ pose_estimates = 0
    /\ solves = 0
    /\ solved_with = NotSolved
    /\ py_result = none
    /\ threads = [t \in Threads |-> NotCalled]

\* A caller calls fit_shape_to_landmarks_linear_multi.
CallMulti ==
    /\ pc = "caller"
    /\ \E a \in MultiCalls : args' = a /\ lambda' = a.lambda
    /\ base_face' = args'.base_face
    /\ pc' = "entry"
    /\ UNCHANGED <<driver, threads, python>>
    /\ UNCHANGED <<linear_call, k, V_hat_h, V_hat_h_row_index, P_coefficients, P_index,
                   y, y_index, v_bar, v_bar_index, Omega, wrote, solved>>

\* A caller calls fit_shape_to_landmarks_linear, which calls the multi function.
CallLinear ==
    /\ pc = "caller"
    /\ \E la \in LinearCalls :
          /\ linear_call' = Some(la)
          /\ args' = fit_shape_to_landmarks_linear(la)
    /\ lambda' = args'.lambda
    /\ base_face' = args'.base_face
    /\ pc' = "entry"
    /\ UNCHANGED <<driver, threads, python>>
    /\ UNCHANGED <<k, V_hat_h, V_hat_h_row_index, P_coefficients, P_index,
                   y, y_index, v_bar, v_bar_index, Omega, wrote, solved>>

\* Lines 64-65 fail: the call is aborted.
EntryAssertFails ==
    /\ pc = "entry"
    /\ ~CardinalitiesAgree(args)
    /\ pc' = "aborted"
    /\ UNCHANGED <<driver, threads, python>>
    /\ UNCHANGED <<linear_call, args, lambda, k, locals, solved>>

\* Lines 64-103: the assertions hold, lambda is adjusted, the matrices are made.
Enter ==
    /\ pc = "entry"
    /\ CardinalitiesAgree(args)
    /\ lambda' = AdjustedLambda(args)
    /\ SetLocals(LocalsAtEntry(args))
    /\ k' = 0
    /\ pc' = "loop"
    /\ UNCHANGED <<driver, threads, python>>
    /\ UNCHANGED <<linear_call, args, solved>>

\* Line 108 fails for image k.
LoopAssertFails ==
    /\ pc = "loop"
    /\ k < num_images(args)
    /\ ~ImageCardinalitiesAgree(args, k)
    /\ pc' = "aborted"
    /\ UNCHANGED <<driver, threads, python>>
    /\ UNCHANGED <<linear_call, args, lambda, k, locals, solved>>

\* Mutant: base_face is taken by reference, so the substitution of line
\* 114 lands in the caller's list.
LoopIteration_ByReference ==
    /\ pc = "loop"
    /\ k < num_images(args)
    /\ ImageCardinalitiesAgree(args, k)
    /\ HasBaseFace(Locals, k)
    /\ ModelReadsInRange(args, k)
    /\ SetLocals(Iteration(Locals, args, k))
    /\ args' = [args EXCEPT !.base_face = Iteration(Locals, args, k).base_face]
    /\ k' = k + 1
    /\ UNCHANGED <<driver, threads, python>>
    /\ UNCHANGED <<pc, linear_call, lambda, solved>>

\* Lines 105-154 for image k.
LoopIteration ==
    /\ pc = "loop"
    /\ k < num_images(args)
    /\ ImageCardinalitiesAgree(args, k)
    /\ HasBaseFace(Locals, k)
    /\ ModelReadsInRange(args, k)
    /\ SetLocals(Iteration(Locals, args, k))
    /\ k' = k + 1
    /\ UNCHANGED <<driver, threads, python>>
    /\ UNCHANGED <<pc, linear_call, args, lambda, solved>>

\* What a read of base_face[k] past the end of the list may find.
StrayFaces == {EmptyFace, OtherFace}

\* Line 112 reads base_face[k] past the end of the list: the call crashes.
LoopStrayReadCrashes ==
    /\ pc = "loop"
    /\ k < num_images(args)
    /\ ImageCardinalitiesAgree(args, k)
    /\ ~HasBaseFace(Locals, k)
    /\ pc' = "crashed"
    /\ UNCHANGED <<driver, threads, python>>
    /\ UNCHANGED <<linear_call, args, lambda, k, locals, solved>>

\* Line 112 reads base_face[k] past the end of the list and goes on with
\* what it found there.
LoopStrayReadGoesOn ==
    /\ pc = "loop"
    /\ k < num_images(args)
    /\ ImageCardinalitiesAgree(args, k)
    /\ ~HasBaseFace(Locals, k)
    /\ \E stray \in StrayFaces :
          SetLocals(LoopBody(Locals, args, k, SubstituteMean(stray)))
    /\ k' = k + 1
    /\ UNCHANGED <<driver, threads, python>>
    /\ UNCHANGED <<pc, linear_call, args, lambda, solved>>

\* Lines 156-168: the loop is over; solve and return.
SolveAndReturn ==
    /\ pc = "loop"
    /\ k >= num_images(args)
    /\ LET sol == Solve(Locals, args, lambda)
       IN  /\ P' = sol.P
           /\ AtOmegaAReg' = sol.AtOmegaAReg
           /\ rhs' = sol.rhs
           /\ result' = Some(sol.c_s)
    /\ pc' = "done"
    /\ UNCHANGED <<driver, threads, python>>
    /\ UNCHANGED <<linear_call, args, lambda, k, locals>>

Next ==
    \/ CallMulti
    \/ CallLinear
    \/ EntryAssertFails
    \/ Enter
    \/ LoopAssertFails
    \/ LoopIteration
    \/ LoopStrayReadCrashes
    \/ LoopStrayReadGoesOn
    \/ SolveAndReturn

Spec == Init /\ [][Next]_vars

(***************************************************************************)
(* The whole call as a function of its arguments: what it returns when     *)
(* every read is in range, none when an assertion aborts it.               *)
(***************************************************************************)
RECURSIVE RunLoop(_, _, _)
RunLoop(s, a, k0) ==
    IF k0 >= num_images(a) THEN s ELSE RunLoop(Iteration(s, a, k0), a, k0 + 1)

\* Every assertion holds and base_face has an entry for every image.
EveryReadInRange(a) ==
    /\ CardinalitiesAgree(a)
    /\ \A j \in 0..(num_images(a) - 1) : ImageCardinalitiesAgree(a, j)
    /\ Len(a.base_face) >= num_images(a)

Asserted(a) ==
    /\ CardinalitiesAgree(a)
    /\ \A j \in 0..(num_images(a) - 1) : ImageCardinalitiesAgree(a, j)

Returned(a) ==
    IF ~Asserted(a) THEN none
    ELSE Some(Solve(RunLoop(LocalsAtEntry(a), a, 0), a, AdjustedLambda(a)).c_s)

(***************************************************************************)
(* Shared vocabulary of the properties.                                    *)
(***************************************************************************)
Called == pc # "caller"

\* The per-image lists of the call differ in length.
ListLengthsDiffer ==
    \/ Len(args.affine_camera_matrix) # Len(args.landmarks)
    \/ Len(args.landmarks) # Len(args.vertex_ids)

\* The images whose landmark count differs from their vertex-id count.
MismatchedImages ==
    {j \in 0..(Len(args.landmarks) - 1) :
        /\ j < Len(args.vertex_ids)
        /\ Len(args.landmarks[j + 1]) # Len(args.vertex_ids[j + 1])}

Min(S) == CHOOSE m \in S : \A n \in S : m <= n

\* None of V_hat_h, P, y, v_bar exists or holds an entry.
NoMatrixBuilt ==
    /\ V_hat_h = <<>> /\ P_coefficients = <<>> /\ P = NoMatrix
    /\ y = <<>> /\ v_bar = <<>> /\ wrote = {}

\* The number of landmarks of the images before image j.
Offset(a, j) == SumLen(SubSeq(a.landmarks, 1, j))

(***************************************************************************)
(* C1. A call whose camera, landmark and vertex-id lists are not all of    *)
(* the same length fails at entry: it can only abort, it has built none of *)
(* V_hat_h, P, y, v_bar, and it returns no coefficients.                   *)
(***************************************************************************)
C1_MismatchedListsAbortAtEntry ==
    (Called /\ ListLengthsDiffer) =>
        /\ pc \in {"entry", "aborted"}
        /\ NoMatrixBuilt
        /\ result = none
        /\ pc = "entry" => (ENABLED EntryAssertFails /\ ~ENABLED Enter)

\* One camera, two landmark sets: the call has aborted.
C1_Witness ==
    /\ pc = "aborted"
    /\ Len(args.affine_camera_matrix) = 1
    /\ Len(args.landmarks) = 2
    /\ NoMatrixBuilt

(***************************************************************************)
(* C2, as claimed. When an image has a landmark count different from its   *)
(* vertex-id count, the error is raised with no entry of V_hat_h, P, y or  *)
(* v_bar written for any image.                                            *)
(***************************************************************************)
C2_AbortsBeforeAnyWrite ==
    (pc = "aborted" /\ ~ListLengthsDiffer /\ MismatchedImages # {}) => wrote = {}

(***************************************************************************)
(* C2, amended. When the lists agree in length and m is the first image    *)
(* whose landmark count differs from its vertex-id count, the call fails   *)
(* at the head of the iteration for image m: it never returns              *)
(* coefficients, it aborts with k = m, and every entry written until then  *)
(* was written for one of the images 0..m-1.                               *)
(***************************************************************************)
C2_AbortsAtTheMismatchedImage ==
    (Called /\ ~ListLengthsDiffer /\ MismatchedImages # {}) =>
        LET m == Min(MismatchedImages)
        IN  /\ pc # "done"
            /\ result = none
            /\ k <= m
            /\ \A w \in wrote : w[3] < m
            /\ pc = "aborted" => k = m
            /\ (pc = "loop" /\ k = m) =>
                  (ENABLED LoopAssertFails /\ ~ENABLED LoopIteration)

\* The second image is the mismatched one: the call aborted after it wrote
\* the entries of the first.
C2_Witness ==
    /\ pc = "aborted"
    /\ MismatchedImages = {1}
    /\ k = 1
    /\ wrote # {}

(***************************************************************************)
(* C3, as claimed. Whenever no base face is supplied for an image (its     *)
(* entry is the empty vector, or the base_face list was omitted), the call *)
(* does not crash and the base-face entries of that image in v_bar are     *)
(* those of the model's mean.                                              *)
(***************************************************************************)
NotSupplied(a, j) == j >= Len(a.base_face) \/ Size(a.base_face[j + 1]) = 0

C3_MeanWhenNoBaseFace ==
    /\ pc # "crashed"
    /\ pc \in {"loop", "done"} =>
          \A j \in 0..(k - 1) :
             NotSupplied(args, j) =>
                \A i \in 0..(Len(args.landmarks[j + 1]) - 1), r \in 0..2 :
                    v_bar[4 * (Offset(args, j) + i) + r]
                        = get_mean[3 * args.vertex_ids[j + 1][i + 1] + r]

(***************************************************************************)
(* C4. fit_shape_to_landmarks_linear returns what                          *)
(* fit_shape_to_landmarks_linear_multi returns for the one-element lists   *)
(* of its arguments, lambda and the three optional arguments unchanged.    *)
(***************************************************************************)
AsMultiCall(la) ==
    MultiArgs(<<la.affine_camera_matrix>>, <<la.landmarks>>, <<la.vertex_ids>>,
              <<la.base_face>>,
              Option(la.lambda, la.num_coefficients_to_fit,
                     la.detector_standard_deviation, la.model_standard_deviation))

C4_LinearIsMultiOfOne ==
    linear_call # none =>
        /\ pc # "crashed"
        /\ pc \in {"done", "aborted"} => result = Returned(AsMultiCall(linear_call[1]))

\* A single-image call with all three optional arguments given has returned
\* a coefficient that is not zero.
C4_Witness ==
    /\ linear_call # none
    /\ pc = "done"
    /\ linear_call[1].model_standard_deviation # none
    /\ linear_call[1].detector_standard_deviation # none
    /\ \E i \in DOMAIN result[1] : result[1][i] # RInt(0)

(***************************************************************************)
(* C5. The multiple of the identity added to A^T Omega A is the caller's   *)
(* lambda times the number of camera matrices passed, for every M >= 1.    *)
(***************************************************************************)
C5_WeightIsLambdaTimesImages ==
    (pc = "done" /\ Len(args.affine_camera_matrix) >= 1) =>
        LET n == Size(AtOmegaAReg)
            AtOA == AtOmegaA(TimesMatrix(P, V_hat_h), OmegaOf(args), n)
        IN  \A i, j \in 0..(n - 1) :
               RSub(AtOmegaAReg[i][j], AtOA[i][j])
                  = IF i = j
                    THEN RInt(args.lambda * Len(args.affine_camera_matrix))
                    ELSE RInt(0)

\* Two images, lambda = 2, two coefficients: the weight is 4.
C5_Witness ==
    /\ pc = "done"
    /\ Len(args.affine_camera_matrix) = 2
    /\ args.lambda = 2
    /\ Size(AtOmegaAReg) = 2
    /\ lambda = 4

(***************************************************************************)
(* C6. The call fits M >= 1 identical copies of one single-image problem.  *)
(***************************************************************************)
IdenticalCopies(a) ==
    /\ num_images(a) >= 1
    /\ EveryReadInRange(a)
    /\ Len(a.base_face) = num_images(a)
    /\ \A j \in 1..num_images(a) :
          /\ a.affine_camera_matrix[j] = a.affine_camera_matrix[1]
          /\ a.landmarks[j] = a.landmarks[1]
          /\ a.vertex_ids[j] = a.vertex_ids[1]
          /\ a.base_face[j] = a.base_face[1]

\* The single-image problem of the first image of a, fitted with lambda l.
FirstImageAlone(a, l) ==
    MultiArgs(<<a.affine_camera_matrix[1]>>, <<a.landmarks[1]>>, <<a.vertex_ids[1]>>,
              <<a.base_face[1]>>,
              Option(l, a.num_coefficients_to_fit,
                     a.detector_standard_deviation, a.model_standard_deviation))

(***************************************************************************)
(* C6, as claimed. Fitting M identical copies with lambda scaled by M      *)
(* (the call is given M times the original lambda) returns the             *)
(* coefficients of fitting the one image with the original lambda.         *)
(***************************************************************************)
C6_CopiesWithScaledLambda ==
    (pc = "done" /\ IdenticalCopies(args) /\ args.lambda % num_images(args) = 0) =>
        result = Returned(FirstImageAlone(args, args.lambda \div num_images(args)))

(***************************************************************************)
(* C6, amended. Fitting M identical copies of a single-image problem with  *)
(* the same lambda argument (which the solver itself multiplies by M)      *)
(* returns the coefficients of fitting the one image with that lambda, in  *)
(* exact arithmetic.                                                       *)
(***************************************************************************)
C6_CopiesWithSameLambda ==
    (pc = "done" /\ IdenticalCopies(args)) =>
        result = Returned(FirstImageAlone(args, args.lambda))

\* Two copies of an image with landmarks, lambda > 0, a coefficient not zero.
C6_Witness ==
    /\ pc = "done"
    /\ IdenticalCopies(args)
    /\ num_images(args) = 2
    /\ args.lambda > 0
    /\ Len(args.landmarks[1]) >= 1
    /\ \E i \in DOMAIN result[1] : result[1][i] # RInt(0)

C8_LengthIsNumCoefficients ==
    pc = "done" =>
        /\ result # none
        /\ Size(result[1]) =
              IF args.num_coefficients_to_fit = none
              THEN get_num_principal_components
              ELSE args.num_coefficients_to_fit[1]

\* Two images, three landmarks, one coefficient asked for and returned.
C8_Witness ==
    /\ pc = "done"
    /\ Len(args.affine_camera_matrix) = 2
    /\ SumLen(args.landmarks) = 3
    /\ args.num_coefficients_to_fit = Some(1)
    /\ get_num_principal_components = 2
    /\ Size(result[1]) = 1

(***************************************************************************)
(* C9. No entry of V_hat_h, P, y or v_bar is written for two images, and   *)
(* a call with one base face per image returns the same coefficients when  *)
(* the camera, landmark, vertex-id and base-face lists are permuted alike  *)
(* (in exact arithmetic).                                                  *)
(***************************************************************************)
ImageOrders(M) ==
    {p \in [1..M -> 1..M] : \A i, j \in 1..M : p[i] = p[j] => i = j}

Permuted(a, p) ==
    [a EXCEPT !.affine_camera_matrix = [j \in 1..Len(@) |-> @[p[j]]],
              !.landmarks = [j \in 1..Len(@) |-> @[p[j]]],
              !.vertex_ids = [j \in 1..Len(@) |-> @[p[j]]],
              !.base_face = [j \in 1..Len(@) |-> @[p[j]]]]

C9_ImageOrderIsIrrelevant ==
    /\ Cardinality({<<w[1], w[2]>> : w \in wrote}) = Cardinality(wrote)
    /\ (pc = "done" /\ Len(args.base_face) = Len(args.affine_camera_matrix)) =>
          \A p \in ImageOrders(Len(args.affine_camera_matrix)) :
             result = Returned(Permuted(args, p))

\* Two different images with different base faces, each with a landmark,
\* have been fitted and a coefficient is not zero.
C9_Witness ==
    /\ pc = "done"
    /\ Len(args.affine_camera_matrix) = 2
    /\ Len(args.base_face) = 2
    /\ args.affine_camera_matrix[1] # args.affine_camera_matrix[2]
    /\ args.landmarks[1] # args.landmarks[2]
    /\ args.base_face[1] # args.base_face[2]
    /\ Len(args.landmarks[1]) >= 1 /\ Len(args.landmarks[2]) >= 1
    /\ \E i \in DOMAIN result[1] : result[1][i] # RInt(0)

\* Section 4.5, step 4, and line 264: the meshes and poses the driver
\* returns, then the two vectors of the binding.
Mesh(shape, blendshape) == [shape |-> shape, blendshape |-> blendshape]
BindingResult ==
    << [j \in DOMAIN driver_args.landmarks |->
          Mesh(pca_shape_coefficients,
               Fitted(blendshape_coefficients.start[j], blendshape_coefficients.rounds))],
       current_pose, pca_shape_coefficients, blendshape_coefficients >>

\* Python calls fit_shape_and_pose, with every optional argument or with
\* none; the two seed vectors are copied into the parameters of the binding.
CallFitShapeAndPose ==
    /\ dpc = "python"
    /\ py_pc = "python"
    /\ \E b \in BindingCalls, o \in {{}, OptionalArguments} :
          binding_args' = ApplyDefaults(b, o)
    /\ pca_shape_coefficients' = Fitted(binding_args'.pca_shape_coefficients, 0)
    /\ blendshape_coefficients' = Fitted(binding_args'.blendshape_coefficients, 0)
    /\ dpc' = "binding"
    /\ UNCHANGED <<driver_args, round, image, current_pose, correspondences, converged,
                   pose_estimates, solves, solved_with, py_result>>
    /\ UNCHANGED <<solver, threads, python>>

\* Line 249: the assertion fails.
BindingAssertFails ==
    /\ dpc = "binding"
    /\ ~BindingAssertion(binding_args)
    /\ dpc' = "aborted"
    /\ UNCHANGED <<binding_args, driver_args, pca_shape_coefficients,
                   blendshape_coefficients, round, image, current_pose, correspondences,
                   converged, pose_estimates, solves, solved_with, py_result>>
    /\ UNCHANGED <<solver, threads, python>>

\* Lines 250-263: the collections are built and the driver is called.
CallDriver ==
    /\ dpc = "binding"
    /\ BindingAssertion(binding_args)
    /\ IdReadsInRange(binding_args)
    /\ driver_args' = fit_shape_and_pose_multi_call(binding_args, LandmarkId(0))
    /\ dpc' = "initial"
    /\ UNCHANGED <<binding_args, pca_shape_coefficients, blendshape_coefficients, round,
                   image, current_pose, correspondences, converged, pose_estimates,
                   solves, solved_with, py_result>>
    /\ UNCHANGED <<solver, threads, python>>

\* Line 258 reads beyond landmark_ids, for an image after the first with
\* more landmarks than there are identifiers: the behaviour is undefined.
\* The call crashes, or goes on with a stray identifier.
StrayIds == {LandmarkId(0), LandmarkId(-1)}

BindingStrayReadCrashes ==
    /\ dpc = "binding"
    /\ BindingAssertion(binding_args)
    /\ ~IdReadsInRange(binding_args)
    /\ dpc' = "crashed"
    /\ UNCHANGED <<binding_args, driver_args, pca_shape_coefficients,
                   blendshape_coefficients, round, image, current_pose, correspondences,
                   converged, pose_estimates, solves, solved_with, py_result>>
    /\ UNCHANGED <<solver, threads, python>>

BindingStrayReadGoesOn ==
    /\ dpc = "binding"
    /\ BindingAssertion(binding_args)
    /\ ~IdReadsInRange(binding_args)
    /\ \E stray \in StrayIds :
          driver_args' = fit_shape_and_pose_multi_call(binding_args, stray)
    /\ dpc' = "initial"
    /\ UNCHANGED <<binding_args, pca_shape_coefficients, blendshape_coefficients, round,
                   image, current_pose, correspondences, converged, pose_estimates,
                   solves, solved_with, py_result>>
    /\ UNCHANGED <<solver, threads, python>>

\* Section 4.5, step 1.
DriverInitial ==
    /\ dpc = "initial"
    /\ pca_shape_coefficients' =
          Fitted(InitialShapeCoefficients(pca_shape_coefficients.start), 0)
    /\ blendshape_coefficients' =
          Fitted(InitialBlendshapeCoefficients(blendshape_coefficients.start,
                                               Len(driver_args.landmarks)), 0)
    /\ current_pose' = [j \in DOMAIN driver_args.landmarks |-> none]
    /\ correspondences' = [j \in DOMAIN driver_args.landmarks |-> 0]
    /\ round' = 0
    /\ image' = 0
    /\ dpc' = IF 0 < driver_args.num_iterations THEN "pose" ELSE "terminal"
    /\ UNCHANGED <<binding_args, driver_args, converged, pose_estimates, solves,
                   solved_with, py_result>>
    /\ UNCHANGED <<solver, threads, python>>

\* Where a round goes once it is done with the image it is at.
AfterImage ==
    IF image + 1 < Len(driver_args.landmarks) THEN "pose" ELSE "solve"

\* Section 4.5, step 2: the pose of one image, from the current
\* coefficients and the landmarks of the image.
EstimatePose ==
    /\ dpc = "pose"
    /\ ~UnderdeterminedSystem(driver_args.landmarks[image + 1])
    /\ current_pose' =
          [current_pose EXCEPT ![image + 1] =
             Some([round |-> round + 1, shape |-> pca_shape_coefficients])]
    /\ pose_estimates' = pose_estimates + 1
    /\ IF driver_args.contour_landmarks
         THEN dpc' = "contour" /\ image' = image
         ELSE dpc' = AfterImage /\ image' = image + 1
    /\ UNCHANGED <<binding_args, driver_args, pca_shape_coefficients,
                   blendshape_coefficients, round, correspondences, converged, solves,
                   solved_with, py_result>>
    /\ UNCHANGED <<solver, threads, python>>

\* Section 4.2: the estimator fails, and the call with it.
EstimatePoseFails ==
    /\ dpc = "pose"
    /\ UnderdeterminedSystem(driver_args.landmarks[image + 1])
    /\ dpc' = "failed"
    /\ UNCHANGED <<binding_args, driver_args, pca_shape_coefficients,
                   blendshape_coefficients, round, image, current_pose, correspondences,
                   converged, pose_estimates, solves, solved_with, py_result>>
    /\ UNCHANGED <<solver, threads, python>>

\* Section 4.5, step 2: the contour correspondences of the image, against
\* the pose just estimated.
ResolveContour ==
    /\ dpc = "contour"
    /\ correspondences' =
          [correspondences EXCEPT ![image + 1] = current_pose[image + 1][1].round]
    /\ dpc' = AfterImage
    /\ image' = image + 1
    /\ UNCHANGED <<binding_args, driver_args, pca_shape_coefficients,
                   blendshape_coefficients, round, current_pose, converged,
                   pose_estimates, solves, solved_with, py_result>>
    /\ UNCHANGED <<solver, threads, python>>

\* Section 4.5, step 3: the joint solve; it may leave the coefficients
\* where they were, which the driver does not look at.
SolveRound ==
    /\ dpc = "solve"
    /\ pca_shape_coefficients' =
          Fitted(pca_shape_coefficients.start, pca_shape_coefficients.rounds + 1)
    /\ blendshape_coefficients' =
          Fitted(blendshape_coefficients.start, blendshape_coefficients.rounds + 1)
    /\ converged' \in BOOLEAN
    /\ solves' = solves + 1
    /\ round' = round + 1
    /\ image' = 0
    /\ solved_with' = SolverInput(round + 1, current_pose, correspondences,
                                  driver_args.landmarks)
    /\ dpc' = IF round + 1 < driver_args.num_iterations THEN "pose" ELSE "terminal"
    /\ UNCHANGED <<binding_args, driver_args, current_pose, correspondences,
                   pose_estimates, py_result>>
    /\ UNCHANGED <<solver, threads, python>>

\* Section 4.5, step 4, and line 264.
Return ==
    /\ dpc = "terminal"
    /\ py_result' = Some(BindingResult)
    /\ dpc' = "returned"
    /\ UNCHANGED <<binding_args, driver_args, pca_shape_coefficients,
                   blendshape_coefficients, round, image, current_pose, correspondences,
                   converged, pose_estimates, solves, solved_with>>
    /\ UNCHANGED <<solver, threads, python>>

DriverNext ==
    \/ CallFitShapeAndPose
    \/ BindingAssertFails
    \/ CallDriver
    \/ BindingStrayReadCrashes
    \/ BindingStrayReadGoesOn
    \/ DriverInitial
    \/ EstimatePose
    \/ EstimatePoseFails
    \/ ResolveContour
    \/ SolveRound
    \/ Return

SpecDriver == Init /\ [][DriverNext]_vars

(***************************************************************************)
(* Properties of the fitting driver.                                       *)
(***************************************************************************)
NumImages == Len(binding_args.landmarkss)
ReturnedShapeCoefficients == py_result[1][3]
ReturnedBlendshapeCoefficients == py_result[1][4]

\* The driver stops only after round num_iterations, whether or not a solve
\* left the coefficients in place, and every round it has completed has
\* estimated one pose per image and solved once.
ExactlyNumIterationsRounds ==
    /\ dpc \in {"terminal", "returned"} =>
          /\ round = binding_args.num_iterations
          /\ solves = binding_args.num_iterations
          /\ pose_estimates = binding_args.num_iterations * NumImages
    /\ dpc \in {"pose", "contour", "solve"} =>
          /\ round < binding_args.num_iterations
          /\ solves = round
          /\ pose_estimates = round * NumImages + image + (IF dpc = "contour" THEN 1 ELSE 0)

\* A call with num_iterations = 0 estimates no pose and solves nothing.
ZeroIterationsDoNothing ==
    binding_args.num_iterations = 0 =>
       /\ pose_estimates = 0
       /\ solves = 0
       /\ dpc \notin {"pose", "contour", "solve", "failed"}
       /\ dpc = "returned" => \A j \in DOMAIN py_result[1][2] : py_result[1][2][j] = none

AllZero(v) == \A i \in DOMAIN v : v[i] = 0

PoseOfRound(poses, j, r) ==
    /\ poses[j] # none
    /\ poses[j][1].round = r
    /\ poses[j][1].shape.rounds = r - 1

\* The correspondences of image j are those of round r: resolved against
\* the pose of that round where contour landmarks are in use, and the
\* fixed ones of the landmark mapper (0) where they are not.
CorrespondencesOfRound(corrs, j, r) ==
    corrs[j] = IF driver_args.contour_landmarks THEN r ELSE 0

C12_CallerValuesUnchanged ==
    [][pc # "caller" => (args' = args /\ linear_call' = linear_call)]_vars

\* A call has returned; the caller's base face of the first image is still
\* empty while the callee's copy holds the mean.
C12_Witness ==
    /\ pc = "done"
    /\ Len(args.base_face) >= 1
    /\ args.base_face[1] = EmptyFace
    /\ base_face[1] = get_mean
    /\ Len(args.landmarks[1]) >= 1

(***************************************************************************)
(* Two calls at once. Each thread runs lines 61-169 on its own arguments   *)
(* and its own locals; the steps of the two interleave in any order. A     *)
(* failed assertion or a crash ends the process, and with it the call of   *)
(* the other thread if that has not returned.                              *)
(***************************************************************************)
ImageA1 == [camera |-> CamA, corr |-> <<CorrespondenceA>>]
ImageB2 == [camera |-> CamB, corr |-> <<CorrespondenceB, CorrespondenceA>>]

\* The calls the threads make: one image, two images, one image with
\* base_face omitted, and one call failing each assertion.
ConcurrentCalls ==
    { CallOf(<<ImageA1>>, <<EmptyFace>>, PlainOptions),
      CallOf(<<ImageB2, ImageA1>>, <<OtherFace, EmptyFace>>, PlainOptions),
      CallOf(<<ImageA1>>, <<>>, PlainOptions),
      [CallOf(<<ImageA1>>, <<EmptyFace>>, PlainOptions) EXCEPT !.landmarks = <<>>],
      [CallOf(<<ImageA1>>, <<EmptyFace>>, PlainOptions) EXCEPT !.vertex_ids[1] = <<>>] }

\* abort() or a crash: every call that has not returned ends with the process.
ProcessEnds(how) ==
    [u \in Threads |->
       IF threads[u].pc = "done" THEN threads[u] ELSE [threads[u] EXCEPT !.pc = how]]

ThreadCalls(t) ==
    /\ threads[t].pc = "caller"
    /\ \E a \in ConcurrentCalls :
          threads' = [threads EXCEPT ![t] =
             [pc |-> "entry", args |-> a, lambda |-> a.lambda, k |-> 0,
              locals |-> [NoLocals EXCEPT !.base_face = a.base_face],
              result |-> none]]
    /\ UNCHANGED <<solver, driver, python>>

\* Lines 64-65 fail.
ThreadEntryAssertFails(t) ==
    /\ threads[t].pc = "entry"
    /\ ~CardinalitiesAgree(threads[t].args)
    /\ threads' = ProcessEnds("aborted")
    /\ UNCHANGED <<solver, driver, python>>

\* Lines 64-103.
ThreadEnter(t) ==
    /\ threads[t].pc = "entry"
    /\ CardinalitiesAgree(threads[t].args)
    /\ threads' = [threads EXCEPT ![t] =
          [@ EXCEPT !.pc = "loop",
                    !.lambda = AdjustedLambda(threads[t].args),
                    !.locals = LocalsAtEntry(threads[t].args),
                    !.k = 0]]
    /\ UNCHANGED <<solver, driver, python>>

\* Line 108 fails.
ThreadLoopAssertFails(t) ==
    /\ threads[t].pc = "loop"
    /\ threads[t].k < num_images(threads[t].args)
    /\ ~ImageCardinalitiesAgree(threads[t].args, threads[t].k)
    /\ threads' = ProcessEnds("aborted")
    /\ UNCHANGED <<solver, driver, python>>

\* Lines 105-154 for the image the thread is at.
ThreadLoopIteration(t) ==
    /\ threads[t].pc = "loop"
    /\ threads[t].k < num_images(threads[t].args)
    /\ ImageCardinalitiesAgree(threads[t].args, threads[t].k)
    /\ HasBaseFace(threads[t].locals, threads[t].k)
    /\ threads' = [threads EXCEPT ![t] =
          [@ EXCEPT !.locals = Iteration(threads[t].locals, threads[t].args,
                                         threads[t].k),
                    !.k = threads[t].k + 1]]
    /\ UNCHANGED <<solver, driver, python>>

\* Line 112 reads past the end of base_face: the process crashes.
ThreadStrayReadCrashes(t) ==
    /\ threads[t].pc = "loop"
    /\ threads[t].k < num_images(threads[t].args)
    /\ ImageCardinalitiesAgree(threads[t].args, threads[t].k)
    /\ ~HasBaseFace(threads[t].locals, threads[t].k)
    /\ threads' = ProcessEnds("crashed")
    /\ UNCHANGED <<solver, driver, python>>

\* Line 112 reads past the end of base_face and goes on with what it found.
ThreadStrayReadGoesOn(t) ==
    /\ threads[t].pc = "loop"
    /\ threads[t].k < num_images(threads[t].args)
    /\ ImageCardinalitiesAgree(threads[t].args, threads[t].k)
    /\ ~HasBaseFace(threads[t].locals, threads[t].k)
    /\ \E stray \in StrayFaces :
          threads' = [threads EXCEPT ![t] =
             [@ EXCEPT !.locals = LoopBody(threads[t].locals, threads[t].args,
                                           threads[t].k, SubstituteMean(stray)),
                       !.k = threads[t].k + 1]]
    /\ UNCHANGED <<solver, driver, python>>

\* Lines 156-168.
ThreadSolveAndReturn(t) ==
    /\ threads[t].pc = "loop"
    /\ threads[t].k >= num_images(threads[t].args)
    /\ threads' = [threads EXCEPT ![t] =
          [@ EXCEPT !.result = Some(Solve(threads[t].locals, threads[t].args,
                                          threads[t].lambda).c_s),
                    !.pc = "done"]]
    /\ UNCHANGED <<solver, driver, python>>

ConcurrentNext ==
    \/ \E t \in Threads : ThreadCalls(t)
    \/ \E t \in Threads : ThreadEntryAssertFails(t)
    \/ \E t \in Threads : ThreadEnter(t)
    \/ \E t \in Threads : ThreadLoopAssertFails(t)
    \/ \E t \in Threads : ThreadLoopIteration(t)
    \/ \E t \in Threads : ThreadStrayReadCrashes(t)
    \/ \E t \in Threads : ThreadStrayReadGoesOn(t)
    \/ \E t \in Threads : ThreadSolveAndReturn(t)

SpecConcurrent == Init /\ [][ConcurrentNext]_vars

\* C13: a call that has returned has returned what the same call returns
\* when it runs alone, whatever the other thread did in between; and two
\* calls with equal arguments that have both returned have returned equal
\* vectors.
C13_CallsAreIndependent ==
    /\ \A t \in Threads :
          (threads[t].pc = "done" /\ EveryReadInRange(threads[t].args)) =>
             threads[t].result = Returned(threads[t].args)
    /\ \A t, u \in Threads :
          (/\ threads[t].pc = "done"
           /\ threads[u].pc = "done"
           /\ threads[t].args = threads[u].args) =>
             threads[t].result = threads[u].result

\* The same of the calls that have a base_face entry for every image.
CallsInRangeAreIndependent ==
    /\ \A t \in Threads :
          (threads[t].pc = "done" /\ EveryReadInRange(threads[t].args)) =>
             threads[t].result = Returned(threads[t].args)
    /\ \A t, u \in Threads :
          (/\ threads[t].pc = "done"
           /\ threads[u].pc = "done"
           /\ EveryReadInRange(threads[t].args)
           /\ threads[t].args = threads[u].args) =>
             threads[t].result = threads[u].result

\* Both threads have returned from different calls in range, and each had
\* started before the other returned.
BothReturned ==
    /\ threads[1].pc = "done"
    /\ threads[2].pc = "done"
    /\ threads[1].args # threads[2].args
    /\ EveryReadInRange(threads[1].args)
    /\ EveryReadInRange(threads[2].args)

(***************************************************************************)
(* Synthetic data: calls whose landmarks are the exact projections of the  *)
(* 3D points the shape model generates from known coefficients.            *)
(***************************************************************************)
\* The coefficient vectors the data are generated from, over the first
\* Len(c) components.
KnownCoefficients == {<<2, 1>>, <<1, -2>>, <<3>>}

\* The 3D point of a vertex: the face plus the basis times c.
GeneratedPoint(face, vertex, c) ==
    [d \in 0..2 |->
       face[3 * vertex + d]
       + SumInt([i \in 1..Len(c) |-> rescaled_pca_basis[3 * vertex + d][i - 1] * c[i]],
                1, Len(c))]

\* The first two rows of an affine camera applied to (point, 1).
ProjectedLandmark(camera, point) ==
    [r \in 0..1 |->
       camera[r][0] * point[0] + camera[r][1] * point[1] + camera[r][2] * point[2]
       + camera[r][3]]

\* The vertex ids tried for an image of n landmarks.
VertexIdLists(n) ==
    { [i \in 1..n |-> (i - 1) % NumVertices], [i \in 1..n |-> i % NumVertices] }

ProjectionImages ==
    {[camera |-> c, vertex_ids |-> v] :
        c \in Cameras, v \in UNION {VertexIdLists(n) : n \in 1..MaxTotalLandmarks}}

ProjectionImageLists ==
    {il \in SeqsUpTo(ProjectionImages, MaxImages) :
        /\ Len(il) >= 1
        /\ SumLen([j \in 1..Len(il) |-> il[j].vertex_ids]) <= MaxTotalLandmarks}

\* The face the interface documents for image j of a call: base_face[j],
\* or the mean where that is empty or not given.
DocumentedFace(faces, j) ==
    IF j <= Len(faces) /\ Size(faces[j]) > 0 THEN faces[j] ELSE get_mean

\* The call on the images il and the base faces `faces` whose landmarks
\* are generated from c, with lambda = 0 and Len(c) coefficients to fit.
ProjectionCall(il, faces, c) ==
    MultiArgs([j \in 1..Len(il) |-> il[j].camera],
              [j \in 1..Len(il) |->
                 [i \in 1..Len(il[j].vertex_ids) |->
                    ProjectedLandmark(il[j].camera,
                       GeneratedPoint(DocumentedFace(faces, j), il[j].vertex_ids[i], c))]],
              [j \in 1..Len(il) |-> il[j].vertex_ids],
              faces,
              Option(0, IF Len(c) = get_num_principal_components THEN none
                        ELSE Some(Len(c)), none, none))

ProjectionCalls ==
    UNION {{ProjectionCall(il, faces, c) :
               faces \in {[j \in 1..Len(il) |-> EmptyFace],
                          [j \in 1..Len(il) |-> OtherFace],
                          <<>>},
               c \in KnownCoefficients} :
           il \in ProjectionImageLists}

\* A caller calls fit_shape_to_landmarks_linear_multi on synthetic data.
CallMultiOnProjections ==
    /\ pc = "caller"
    /\ \E a \in ProjectionCalls : args' = a /\ lambda' = a.lambda
    /\ base_face' = args'.base_face
    /\ pc' = "entry"
    /\ UNCHANGED <<driver, threads, python>>
    /\ UNCHANGED <<linear_call, k, V_hat_h, V_hat_h_row_index, P_coefficients, P_index,
                   y, y_index, v_bar, v_bar_index, Omega, wrote, solved>>

RecoveryNext ==
    \/ CallMultiOnProjections
    \/ Enter
    \/ LoopIteration
    \/ LoopStrayReadCrashes
    \/ LoopStrayReadGoesOn
    \/ SolveAndReturn

SpecRecovery == Init /\ [][RecoveryNext]_vars

\* The landmarks of the call a are the exact projections of the points
\* generated from c, and c has as many entries as a fits.
IsExactProjection(a, c) ==
    /\ Len(c) = num_coeffs_to_fit(a)
    /\ \A j \in 1..num_images(a) :
          \A i \in 1..Len(a.landmarks[j]) :
             a.landmarks[j][i] =
                ProjectedLandmark(a.affine_camera_matrix[j],
                   GeneratedPoint(DocumentedFace(a.base_face, j), a.vertex_ids[j][i], c))

\* The correspondences determine every coefficient: A^T Omega A has an
\* inverse (lambda = 0).
FullRank == Invertible(AtOmegaAReg, Size(AtOmegaAReg))

Recovered(c) == result = Some([i \in 0..(Len(c) - 1) |-> RInt(c[i + 1])])

\* C14: a call with lambda = 0 whose landmarks are the exact projections of
\* the points generated from a coefficient vector, and whose
\* correspondences determine every coefficient, returns that vector.
C14_ExactRecovery ==
    (pc = "done" /\ args.lambda = 0 /\ FullRank) =>
        \A c \in KnownCoefficients : IsExactProjection(args, c) => Recovered(c)

\* The same of the calls that have a base_face entry for every image.
ExactRecoveryInRange ==
    (pc = "done" /\ args.lambda = 0 /\ FullRank /\ EveryReadInRange(args)) =>
        \A c \in KnownCoefficients : IsExactProjection(args, c) => Recovered(c)

\* Two coefficients, not both zero, have been recovered from two images.
RecoveredFromTwoImages ==
    /\ pc = "done"
    /\ args.lambda = 0
    /\ FullRank
    /\ EveryReadInRange(args)
    /\ num_images(args) = 2
    /\ IsExactProjection(args, <<1, -2>>)
    /\ Recovered(<<1, -2>>)

(***************************************************************************)
(* The norm of the coefficients against lambda.                            *)
(***************************************************************************)
\* Lines 156-166 of the call a made with lambda l instead.
SolvedWith(a, l) ==
    LET b == [a EXCEPT !.lambda = l]
    IN  Solve(RunLoop(LocalsAtEntry(b), b, 0), b, AdjustedLambda(b))

\* p + q over the least common denominator, and a/b < c/d for a, c >= 0 and
\* b, d > 0 by the whole parts first and the remainders after, so that no
\* product of two denominators is formed.
AddOverLcd(p, q) ==
    LET g == Gcd(p[2], q[2])
    IN  Rat(p[1] * (q[2] \div g) + q[1] * (p[2] \div g), (p[2] \div g) * q[2])

RECURSIVE FractionLess(_, _, _, _)
FractionLess(a, b, c, d) ==
    IF a \div b # c \div d THEN a \div b < c \div d
    ELSE IF c % d = 0 THEN FALSE
    ELSE IF a % b = 0 THEN TRUE
    ELSE FractionLess(d, c % d, b, a % b)

RECURSIVE SquaredNormFrom(_, _)
SquaredNormFrom(c, i) ==
    IF i >= Size(c) THEN RInt(0)
    ELSE AddOverLcd(RMul(c[i], c[i]), SquaredNormFrom(c, i + 1))
SquaredNorm(c) == SquaredNormFrom(c, 0)

\* norm(c) < norm(e).
ShorterThan(c, e) ==
    FractionLess(SquaredNorm(c)[1], SquaredNorm(c)[2], SquaredNorm(e)[1], SquaredNorm(e)[2])

\* The larger values of lambda a call is compared with.
LargerLambdas(l) == {l, l + 1, l + 3}

\* C15: for a call with a base face for every image whose system is
\* solvable, the same call with a lambda at least as large, if solvable
\* too, returns coefficients whose norm is at most that of the call's.
C15_NormDecreasesWithLambda ==
    (pc = "done" /\ EveryReadInRange(args) /\ FullRank) =>
        \A l \in LargerLambdas(args.lambda) :
           LET other == SolvedWith(args, l)
           IN  Invertible(other.AtOmegaAReg, Size(other.AtOmegaAReg)) =>
                  ~ShorterThan(result[1], other.c_s)

\* A call has returned coefficients that a larger lambda makes strictly
\* smaller, both systems being solvable.
C15_Witness ==
    /\ pc = "done"
    /\ EveryReadInRange(args)
    /\ FullRank
    /\ args.lambda >= 1
    /\ num_images(args) = 2
    /\ LET other == SolvedWith(args, args.lambda + 1)
       IN  /\ Invertible(other.AtOmegaAReg, Size(other.AtOmegaAReg))
           /\ ShorterThan(other.c_s, result[1])

(***************************************************************************)
(* fit_shape_and_pose called without its optional arguments.               *)
(***************************************************************************)
OptionalArgumentsOmitted ==
    dpc # "python" /\ binding_args.omitted = OptionalArguments

\* C16: a call of fit_shape_and_pose that omits the optional arguments runs
\* with num_iterations = 5, lambda = 30, no number of shape coefficients and
\* empty seeds (so from all-zero coefficients), and returns a 4-tuple of
\* meshes, poses, shape coefficients and blendshape coefficients, the
\* coefficients being those the fifth and last round left and the meshes
\* and poses those of that round.
C16_DefaultsAndFinalRound ==
    OptionalArgumentsOmitted =>
        /\ binding_args.num_iterations = 5
        /\ binding_args.lambda = 30
        /\ binding_args.num_shape_coefficients_to_fit = -1
        /\ binding_args.pca_shape_coefficients = <<>>
        /\ binding_args.blendshape_coefficients = <<>>
        /\ dpc \in {"initial", "pose", "contour", "solve", "terminal", "returned",
                    "failed"} =>
              /\ driver_args.num_iterations = 5
              /\ driver_args.lambda = 30
              /\ driver_args.num_shape_coefficients_to_fit = none
        /\ dpc \in {"pose", "contour", "solve", "terminal", "returned", "failed"} =>
              /\ pca_shape_coefficients.start = Zeros(get_num_principal_components)
              /\ \A j \in DOMAIN blendshape_coefficients.start :
                    blendshape_coefficients.start[j] = Zeros(Len(blendshapes))
        /\ dpc = "returned" =>
              /\ solves = 5
              /\ Len(py_result[1]) = 4
              /\ py_result[1][3] = Fitted(Zeros(get_num_principal_components), 5)
              /\ py_result[1][3] = pca_shape_coefficients
              /\ py_result[1][4] = blendshape_coefficients
              /\ blendshape_coefficients.rounds = 5
              /\ \A j \in DOMAIN py_result[1][1] :
                    /\ py_result[1][1][j].shape = py_result[1][3]
                    /\ py_result[1][2][j][1].round = 5

\* A call of two images without the optional arguments has returned.
C16_Witness ==
    /\ OptionalArgumentsOmitted
    /\ dpc = "returned"
    /\ Len(binding_args.landmarkss) = 2
    /\ solves = 5

(***************************************************************************)
(* The assembled matrices and the running indices.                         *)
(***************************************************************************)
\* Every image has been through the loop of line 105.
Assembled == pc = "done" \/ (pc = "loop" /\ k >= num_images(args))

\* The landmarks of the call as <<j, i>>: landmark i of image j, both from
\* 1; its place p in image-then-landmark order, from 0; and its vertex.
LandmarksOf(a) ==
    {q \in (1..num_images(a)) \X (1..total_num_landmarks_dimension(a)) :
        q[2] <= Len(a.landmarks[q[1]])}
PlaceOf(a, q) == Offset(a, q[1] - 1) + q[2] - 1
VertexOf(a, q) == a.vertex_ids[q[1]][q[2]]
N_total == total_num_landmarks_dimension(args)

\* C17: once every image is assembled V_hat_h has 4 * N_total rows of
\* num_coeffs_to_fit columns; rows 4p..4p+2 are the first num_coeffs_to_fit
\* columns of the basis rows of the vertex of the p-th landmark, and row
\* 4p+3 is zero.
C17_BasisRowsInPlace ==
    Assembled =>
        /\ Rows(V_hat_h) = 4 * N_total
        /\ \A r \in DOMAIN V_hat_h : Size(V_hat_h[r]) = num_coeffs_to_fit(args)
        /\ \A q \in LandmarksOf(args) :
              \A c \in 0..(num_coeffs_to_fit(args) - 1) :
                 /\ \A d \in 0..2 :
                       V_hat_h[4 * PlaceOf(args, q) + d][c] =
                          rescaled_pca_basis[3 * VertexOf(args, q) + d][c]
                 /\ V_hat_h[4 * PlaceOf(args, q) + 3][c] = 0

\* Two images with three landmarks between them are assembled, for one
\* coefficient of two, and some basis entry is not zero.
C17_Witness ==
    /\ Assembled
    /\ num_images(args) = 2
    /\ Len(args.landmarks[1]) >= 1
    /\ N_total = 3
    /\ num_coeffs_to_fit(args) = 1
    /\ \E r \in DOMAIN V_hat_h : V_hat_h[r][0] # 0

\* C18: P is 3 * N_total by 4 * N_total; its block at rows 3p..3p+2 and
\* columns 4p..4p+3 is the camera matrix of the image of the p-th landmark;
\* it holds nothing outside these blocks; and no two triplets of
\* P_coefficients name the same entry.
C18_CameraBlocksOnDiagonal ==
    pc = "done" =>
        /\ P.rows = 3 * N_total
        /\ P.cols = 4 * N_total
        /\ \A q \in LandmarksOf(args) :
              \A x \in 0..2, c \in 0..3 :
                 Coeff(P, 3 * PlaceOf(args, q) + x, 4 * PlaceOf(args, q) + c) =
                    args.affine_camera_matrix[q[1]][x][c]
        /\ \A cell \in DOMAIN P.coeff :
              \E q \in LandmarksOf(args) :
                 /\ cell[1] \in (3 * PlaceOf(args, q))..(3 * PlaceOf(args, q) + 2)
                 /\ cell[2] \in (4 * PlaceOf(args, q))..(4 * PlaceOf(args, q) + 3)
        /\ \A m, n \in DOMAIN P_coefficients :
              (P_coefficients[m].row = P_coefficients[n].row
               /\ P_coefficients[m].col = P_coefficients[n].col) => m = n

\* P has been built for two images with different cameras and three
\* landmarks between them.
C18_Witness ==
    /\ pc = "done"
    /\ num_images(args) = 2
    /\ args.affine_camera_matrix[1] # args.affine_camera_matrix[2]
    /\ Len(args.landmarks[1]) >= 1 /\ Len(args.landmarks[2]) >= 1
    /\ N_total = 3

\* The vectors base_face[k] can hold once lines 112-115 have run: the
\* callee's entry for the image, or what a read past the end of the list
\* left in its place.
FacesOfImage(j) ==
    IF j <= Len(base_face) THEN {base_face[j]}
    ELSE {SubstituteMean(f) : f \in StrayFaces}

\* C19: once every image is assembled y has 3 * N_total entries and v_bar
\* 4 * N_total; y[3p], y[3p+1] are the coordinates of the p-th landmark and
\* y[3p+2] = 1; v_bar[4p..4p+2] are entries 3v..3v+2 of base_face[k] for the
\* image k and the vertex v of that landmark, and v_bar[4p+3] = 1.
C19_LandmarksAndBaseInPlace ==
    Assembled =>
        /\ Size(y) = 3 * N_total
        /\ Size(v_bar) = 4 * N_total
        /\ \A q \in LandmarksOf(args) :
              LET p == PlaceOf(args, q)
                  v == VertexOf(args, q)
              IN  /\ y[3 * p] = args.landmarks[q[1]][q[2]][0]
                  /\ y[3 * p + 1] = args.landmarks[q[1]][q[2]][1]
                  /\ y[3 * p + 2] = 1
                  /\ v_bar[4 * p + 3] = 1
                  /\ \E face \in FacesOfImage(q[1]) :
                        \A d \in 0..2 : v_bar[4 * p + d] = face[3 * v + d]
        /\ \A j \in 1..Len(base_face) :
              j <= num_images(args) =>
                 base_face[j] = SubstituteMean(args.base_face[j])

\* Two images, one with a base face of its own and one on the mean, are
\* assembled with three landmarks between them.
C19_Witness ==
    /\ Assembled
    /\ num_images(args) = 2
    /\ Len(base_face) = 2
    /\ base_face[1] = OtherFace
    /\ base_face[2] = get_mean
    /\ Len(args.landmarks[1]) >= 1 /\ Len(args.landmarks[2]) >= 1
    /\ N_total = 3

\* The indices are in step after k images.
IndicesInStep ==
    pc \in {"loop", "done"} =>
        /\ P_index = Offset(args, k)
        /\ y_index = P_index
        /\ v_bar_index = P_index
        /\ V_hat_h_row_index = 4 * P_index
        /\ k <= num_images(args)
        /\ Assembled => P_index = N_total

\* Every entry written lies within its matrix.
WritesWithinDimensions ==
    pc \in {"loop", "done"} =>
        \A w \in wrote :
           CASE w[1] = "V_hat_h" -> w[2] \in 0..(4 * N_total - 1)
             [] w[1] = "P" -> /\ w[2][1] \in 0..(3 * N_total - 1)
                              /\ w[2][2] \in 0..(4 * N_total - 1)
             [] w[1] = "y" -> w[2] \in 0..(3 * N_total - 1)
             [] w[1] = "v_bar" -> w[2] \in 0..(4 * N_total - 1)

\* No index goes down while the call runs.
IndicesNeverDecrease ==
    (pc = "loop" /\ pc' \in {"loop", "done"}) =>
        /\ P_index' >= P_index
        /\ y_index' >= y_index
        /\ v_bar_index' >= v_bar_index
        /\ V_hat_h_row_index' >= V_hat_h_row_index

\* C20: after the iteration for image k, P_index = y_index = v_bar_index =
\* V_hat_h_row_index / 4 = the number of landmarks of the images 0..k; the
\* indices never decrease; after the last image they equal N_total; and
\* every write lands within the allocated dimensions.
C20_IndicesInStep ==
    /\ [](IndicesInStep /\ WritesWithinDimensions)
    /\ [][IndicesNeverDecrease]_vars

\* The second of two images, both with landmarks, has been assembled.
C20_Witness ==
    /\ pc = "loop"
    /\ k = 2
    /\ num_images(args) = 2
    /\ Len(args.landmarks[1]) >= 1
    /\ Len(args.landmarks[2]) = 2
    /\ P_index = 3

(***************************************************************************)
(* The weights of the rows.                                                *)
(***************************************************************************)
\* The variance a caller's standard deviation stands for, or the one the
\* call takes when the caller gives none.
VarianceOr(sd, variance) == IF sd = none THEN variance ELSE sd[1].squared

\* C21: Omega has one entry for each of the 3 * N_total rows, and every
\* entry is 1 / (detector variance + model variance), the detector variance
\* being 3 and the model variance 0 where the caller gave none: 1/3 where
\* the caller gave neither.
C21_EveryRowHasTheSameWeight ==
    pc \in {"loop", "done"} =>
        /\ DOMAIN Omega = 0..(3 * N_total - 1)
        /\ \A r \in DOMAIN Omega :
              Omega[r] = Rat(1, VarianceOr(args.detector_standard_deviation, 3)
                                + VarianceOr(args.model_standard_deviation, 0))
        /\ (args.detector_standard_deviation = none
            /\ args.model_standard_deviation = none) =>
              \A r \in DOMAIN Omega : Omega[r] = <<1, 3>>

\* A call with landmarks and only the model's standard deviation given has
\* its weights, which are not 1/3.
C21_Witness ==
    /\ pc = "done"
    /\ N_total >= 2
    /\ args.detector_standard_deviation = none
    /\ args.model_standard_deviation # none
    /\ Omega[0] = <<1, 4>>

(***************************************************************************)
(* The other functions and methods of the Python module: one call at a     *)
(* time is made from Python, of fit_shape_and_pose or of one of these.     *)
(***************************************************************************)
\* The heights of the viewport a caller passes, and the points: one list
\* long enough for the estimation and one that is one point short.
ViewportHeights == {-1, 0, 1, 480}
ImagePoints == {[i \in 1..n |-> <<i, 2 * i>>] : n \in LandmarkCounts}
ModelPoints(image_points) == [i \in DOMAIN image_points |-> <<i, 0, i, 1>>]

\* Line 237: the argument a Python caller may omit and the value it then
\* takes.
viewport_height_default == 0

\* The parameters of the lambda of line 234 for a call with height h, or
\* with the height omitted.
EstimateCall(image_points, is_viewport_upsidedown, h, omitted) ==
    [function |-> "estimate_orthographic_projection_linear",
     image_points |-> image_points, model_points |-> ModelPoints(image_points),
     is_viewport_upsidedown |-> is_viewport_upsidedown,
     viewport_height |-> IF omitted THEN viewport_height_default ELSE h,
     omitted |-> omitted]

\* Mutant: every height that is not positive is taken for unset.
viewport_height_opt_UnsetIfNotPositive(c) ==
    IF c.viewport_height <= 0 THEN none ELSE Some(c.viewport_height)

\* Line 235.
viewport_height_opt(c) ==
    IF c.viewport_height = 0 THEN none ELSE Some(c.viewport_height)

\* Line 236: the arguments of fitting::estimate_orthographic_projection_linear.
estimate_orthographic_projection_linear_call(c) ==
    [image_points |-> c.image_points, model_points |-> c.model_points,
     is_viewport_upsidedown |-> c.is_viewport_upsidedown,
     viewport_height |-> viewport_height_opt(c)]

\* Lines 234-236: Python calls estimate_orthographic_projection_linear and
\* the binding calls the function of that name.
CallEstimateOrthographicProjectionLinear ==
    /\ py_pc = "python"
    /\ dpc = "python"
    /\ \E image_points \in ImagePoints, flag \in BOOLEAN, h \in ViewportHeights,
          omitted \in BOOLEAN :
          py_call' = EstimateCall(image_points, flag, h, omitted)
    /\ py_passed' = estimate_orthographic_projection_linear_call(py_call')
    /\ py_pc' = "callee"
    /\ UNCHANGED <<py_object, py_return>>
    /\ UNCHANGED <<solver, driver, threads>>

\* The landmarks and identifiers a caller of fit_pose passes.
FitPoseCall(landmarks, landmark_ids, pca) ==
    [function |-> "fit_pose", landmarks |-> landmarks, landmark_ids |-> landmark_ids,
     image_width |-> 640, image_height |-> 480, pca_shape_coefficients |-> pca,
     blendshape_coefficients |-> <<>>]

FitPoseCalls ==
    {FitPoseCall(ls[1], ids, pca) :
        ls \in {l \in Landmarkss : Len(l) = 1}, ids \in LandmarkIdss, pca \in ShapeSeeds}

\* Line 268: the assertion of the binding of fit_pose.
FitPoseAssertion(c) == Len(c.landmarks) = Len(c.landmark_ids)

\* Lines 270-274.
landmark_collection(c) ==
    [i \in DOMAIN c.landmarks |->
       [name |-> c.landmark_ids[i],
        coordinates |-> <<c.landmarks[i].x, c.landmarks[i].y>>]]

\* Line 276: the arguments of fitting::fit_pose.
fit_pose_call(c) ==
    [landmarks |-> landmark_collection(c),
     image_width |-> c.image_width, image_height |-> c.image_height,
     pca_shape_coefficients |-> c.pca_shape_coefficients,
     blendshape_coefficients |-> c.blendshape_coefficients]

\* Lines 267-268: Python calls fit_pose and the assertion fails.
FitPoseAssertFails ==
    /\ py_pc = "python"
    /\ dpc = "python"
    /\ \E c \in FitPoseCalls : ~FitPoseAssertion(c) /\ py_call' = c
    /\ py_pc' = "aborted"
    /\ UNCHANGED <<py_passed, py_object, py_return>>
    /\ UNCHANGED <<solver, driver, threads>>

\* Lines 267-276: Python calls fit_pose, the collection is built and
\* fitting::fit_pose is called.
CallFitPose ==
    /\ py_pc = "python"
    /\ dpc = "python"
    /\ \E c \in FitPoseCalls : FitPoseAssertion(c) /\ py_call' = c
    /\ py_passed' = fit_pose_call(py_call')
    /\ py_pc' = "callee"
    /\ UNCHANGED <<py_object, py_return>>
    /\ UNCHANGED <<solver, driver, threads>>

\* The points the pose is estimated from.
PassedPoints ==
    IF py_call.function = "fit_pose" THEN py_passed.landmarks
    ELSE py_passed.image_points

\* Section 6: the estimation fails on underdetermined input.
EstimationFails ==
    /\ py_pc = "callee"
    /\ py_call.function \in {"estimate_orthographic_projection_linear", "fit_pose"}
    /\ UnderdeterminedSystem(PassedPoints)
    /\ py_pc' = "failed"
    /\ UNCHANGED <<py_call, py_passed, py_object, py_return>>
    /\ UNCHANGED <<solver, driver, threads>>

\* Lines 236 and 277: what the function returns is returned to Python.
EstimationReturns ==
    /\ py_pc = "callee"
    /\ py_call.function \in {"estimate_orthographic_projection_linear", "fit_pose"}
    /\ ~UnderdeterminedSystem(PassedPoints)
    /\ py_return' = [estimated_from |-> py_passed]
    /\ py_pc' = "returned"
    /\ UNCHANGED <<py_call, py_passed, py_object>>
    /\ UNCHANGED <<solver, driver, threads>>

(***************************************************************************)
(* Pickling: __getstate__ and __setstate__ of RenderingParameters and      *)
(* Mesh.  A Python value is an int, a float or a tuple or list of values.  *)
(***************************************************************************)
PyInt(n) == [int |-> n]
PyFloat(x) == [float |-> x]
PyList(values) == [list |-> values]

\* t[i].cast<int>() and t[i].cast<float>(); the latter takes an int as well.
cast_int(v) == v.int
cast_float(v) == IF "float" \in DOMAIN v THEN v.float ELSE RInt(v.int)

\* A vector of glm vectors as Python sees it, and read back by cast<>.
FloatVectorsToPython(vs) ==
    PyList([i \in DOMAIN vs |-> [c \in DOMAIN vs[i] |-> PyFloat(vs[i][c])]])
IntArraysToPython(vs) ==
    PyList([i \in DOMAIN vs |-> [c \in DOMAIN vs[i] |-> PyInt(vs[i][c])]])
cast_float_vectors(v) ==
    [i \in DOMAIN v.list |-> [c \in DOMAIN v.list[i] |-> cast_float(v.list[i][c])]]
cast_int_arrays(v) ==
    [i \in DOMAIN v.list |-> [c \in DOMAIN v.list[i] |-> cast_int(v.list[i][c])]]

\* glm::quat(w, x, y, z), Frustum(l, r, b, t) and the constructor of line
\* 230: a pose holds what section 3 lists for it.
quat(qw, qx, qy, qz) == [x |-> qx, y |-> qy, z |-> qz, w |-> qw]
Frustum(l, r, b, t) == [l |-> l, r |-> r, b |-> b, t |-> t]
RenderingParameters(camera_type, frustum, rotation, t_x, t_y, width, height) ==
    [camera_type |-> camera_type, frustum |-> frustum, rotation |-> rotation,
     t_x |-> t_x, t_y |-> t_y, screen_width |-> width, screen_height |-> height]

\* The poses that are pickled: both kinds of camera, two rotations, every
\* field different from the others of its group.
Rotations ==
    {quat(Rat(1, 1), Rat(0, 1), Rat(0, 1), Rat(0, 1)),
     quat(Rat(0, 1), Rat(2, 15), Rat(2, 3), Rat(11, 15))}
Poses ==
    {RenderingParameters(c, Frustum(Rat(0, 1), Rat(640, 1), Rat(480, 1), Rat(-1, 2)),
                         q, Rat(7, 2), Rat(-3, 1), wh[1], wh[2]) :
        c \in {"Orthographic", "Perspective"}, q \in Rotations,
        wh \in {<<640, 480>>, <<480, 640>>}}

\* Lines 198-212.
RenderingParameters_getstate(p) ==
    << PyInt(IF p.camera_type = "Perspective" THEN 1 ELSE 0),
       << PyFloat(p.frustum.l), PyFloat(p.frustum.r), PyFloat(p.frustum.b),
          PyFloat(p.frustum.t) >>,
       << PyFloat(p.rotation.x), PyFloat(p.rotation.y), PyFloat(p.rotation.z),
          PyFloat(p.rotation.w) >>,
       PyFloat(p.t_x), PyFloat(p.t_y), PyInt(p.screen_width), PyInt(p.screen_height) >>

\* What a call of __setstate__ does: it raises, or the object is the one
\* constructed from the state.
Raised(what, p) == [raised |-> Some(what), object |-> p]
Constructed(p) == [raised |-> none, object |-> p]

\* Mutant: the rotation is read as if the constructor took x, y, z, w.
RenderingParameters_setstate_QuatInTupleOrder(p, t) ==
    IF Len(t) # 7 THEN Raised("Invalid state!", p)
    ELSE Constructed(RenderingParameters(
            IF cast_int(t[1]) = 1 THEN "Perspective" ELSE "Orthographic",
            Frustum(cast_float(t[2][1]), cast_float(t[2][2]), cast_float(t[2][3]),
                    cast_float(t[2][4])),
            quat(cast_float(t[3][1]), cast_float(t[3][2]), cast_float(t[3][3]),
                 cast_float(t[3][4])),
            cast_float(t[4]), cast_float(t[5]), cast_int(t[6]), cast_int(t[7])))

\* Lines 213-231.
RenderingParameters_setstate(p, t) ==
    IF Len(t) # 7 THEN Raised("Invalid state!", p)
    ELSE Constructed(RenderingParameters(
            IF cast_int(t[1]) = 1 THEN "Perspective" ELSE "Orthographic",
            Frustum(cast_float(t[2][1]), cast_float(t[2][2]), cast_float(t[2][3]),
                    cast_float(t[2][4])),
            quat(cast_float(t[3][4]), cast_float(t[3][1]), cast_float(t[3][2]),
                 cast_float(t[3][3])),
            cast_float(t[4]), cast_float(t[5]), cast_int(t[6]), cast_int(t[7])))

\* Lines 73-77 and 87: the fields of a mesh, and core::Mesh().
MeshOf(vertices, colors, texcoords, tvi, tci) ==
    [vertices |-> vertices, colors |-> colors, texcoords |-> texcoords,
     tvi |-> tvi, tci |-> tci]
EmptyMesh == MeshOf(<<>>, <<>>, <<>>, <<>>, <<>>)

\* The meshes that are pickled: the empty one, a triangle without colour,
\* and one whose colour indices differ from its vertex indices.
Triangle ==
    << <<Rat(0, 1), Rat(0, 1), Rat(0, 1), Rat(1, 1)>>,
       <<Rat(1, 1), Rat(0, 1), Rat(1, 2), Rat(1, 1)>>,
       <<Rat(0, 1), Rat(1, 1), Rat(-1, 2), Rat(1, 1)>> >>
Meshes ==
    {EmptyMesh,
     MeshOf(Triangle, <<>>, <<>>, << <<0, 1, 2>> >>, <<>>),
     MeshOf(Triangle,
            << <<Rat(1, 1), Rat(0, 1), Rat(0, 1)>>, <<Rat(0, 1), Rat(1, 2), Rat(0, 1)>>,
               <<Rat(0, 1), Rat(0, 1), Rat(1, 4)>> >>,
            << <<Rat(0, 1), Rat(0, 1)>>, <<Rat(1, 1), Rat(0, 1)>>,
               <<Rat(1, 2), Rat(1, 1)>> >>,
            << <<0, 1, 2>> >>, << <<2, 1, 0>> >>)}

\* Mutant: the two index lists are written in the other order.
Mesh_getstate_ColourIndicesFirst(p) ==
    << FloatVectorsToPython(p.vertices), FloatVectorsToPython(p.colors),
       FloatVectorsToPython(p.texcoords), IntArraysToPython(p.tci),
       IntArraysToPython(p.tvi) >>

\* Lines 78-81.
Mesh_getstate(p) ==
    << FloatVectorsToPython(p.vertices), FloatVectorsToPython(p.colors),
       FloatVectorsToPython(p.texcoords), IntArraysToPython(p.tvi),
       IntArraysToPython(p.tci) >>

\* Mutant: the object is constructed anew before the size is looked at.
Mesh_setstate_ConstructsFirst(p, t) ==
    IF Len(t) # 5 THEN Raised("Invalid state!", EmptyMesh)
    ELSE Constructed(MeshOf(cast_float_vectors(t[1]), cast_float_vectors(t[2]),
                            cast_float_vectors(t[3]), cast_int_arrays(t[4]),
                            cast_int_arrays(t[5])))

\* Lines 82-94.
Mesh_setstate(p, t) ==
    IF Len(t) # 5 THEN Raised("Invalid state!", p)
    ELSE Constructed(MeshOf(cast_float_vectors(t[1]), cast_float_vectors(t[2]),
                            cast_float_vectors(t[3]), cast_int_arrays(t[4]),
                            cast_int_arrays(t[5])))

Classes == {"RenderingParameters", "Mesh"}
Objects(class) == IF class = "Mesh" THEN Meshes ELSE Poses
getstate(class, p) ==
    IF class = "Mesh" THEN Mesh_getstate(p) ELSE RenderingParameters_getstate(p)
setstate(class, p, t) ==
    IF class = "Mesh" THEN Mesh_setstate(p, t) ELSE RenderingParameters_setstate(p, t)

\* The object pickle hands to __setstate__: allocated, not constructed.
Unconstructed == [unconstructed |-> TRUE]

\* The states Python code passes to __setstate__ itself: a state written
\* by __getstate__, or one with an entry less or an entry more, or empty.
States(class) ==
    UNION {{getstate(class, p), SubSeq(getstate(class, p), 1, Len(getstate(class, p)) - 1),
            getstate(class, p) \o <<PyInt(0)>>, <<>>} : p \in Objects(class)}

\* pickle.dumps(p): __getstate__ is called on an object.
GetState ==
    /\ py_pc = "python"
    /\ dpc = "python"
    /\ \E class \in Classes : \E p \in Objects(class) :
          /\ py_call' = [function |-> "__getstate__", class |-> class, self |-> p]
          /\ py_object' = p
          /\ py_return' = getstate(class, p)
    /\ py_pc' = "pickled"
    /\ UNCHANGED py_passed
    /\ UNCHANGED <<solver, driver, threads>>

\* pickle.loads: __setstate__ is called on an object that is not yet
\* constructed, with the state __getstate__ returned.
SetStateOfPickle ==
    /\ py_pc = "pickled"
    /\ py_passed' = py_return
    /\ LET done == setstate(py_call.class, Unconstructed, py_return)
       IN  /\ py_object' = done.object
           /\ py_pc' = IF done.raised = none THEN "returned" ELSE "raised"
    /\ UNCHANGED <<py_call, py_return>>
    /\ UNCHANGED <<solver, driver, threads>>

\* Python code calls __setstate__ of an object with a state of its own.
SetState ==
    /\ py_pc = "python"
    /\ dpc = "python"
    /\ \E class \in Classes : \E p \in Objects(class), t \in States(class) :
          /\ py_call' = [function |-> "__setstate__", class |-> class, self |-> p]
          /\ py_passed' = t
          /\ LET done == setstate(class, p, t)
             IN  /\ py_object' = done.object
                 /\ py_return' = done.raised
                 /\ py_pc' = IF done.raised = none THEN "returned" ELSE "raised"
    /\ UNCHANGED <<solver, driver, threads>>

(***************************************************************************)
(* LandmarkMapper.convert.  A mapper is the identity mapper of line 63 or  *)
(* holds the mappings of a file (line 64), here three lines of             *)
(* share/ibug_to_bfm.txt.                                                  *)
(***************************************************************************)
LandmarkMapper(identity, mappings) == [identity |-> identity, mappings |-> mappings]
Mappers ==
    {LandmarkMapper(TRUE, <<>>),
     LandmarkMapper(FALSE, <<>>),
     LandmarkMapper(FALSE, ("9" :> "43783") @@ ("31" :> "8319") @@ ("34" :> "8334"))}

\* The names a caller asks for: mapped ones, a contour landmark and one
\* the file leaves out, and the empty name.
LandmarkNames == {"9", "31", "34", "1", "61", ""}

\* core::LandmarkMapper::convert: the mapped name, if there is one.
LandmarkMapper_convert(instance, landmarkname) ==
    IF instance.identity THEN Some(landmarkname)
    ELSE IF landmarkname \in DOMAIN instance.mappings
         THEN Some(instance.mappings[landmarkname])
         ELSE none

\* Mutant: a name without a mapping is returned as it is.
convert_NameIfUnmapped(instance, landmarkname) ==
    get_value_or(LandmarkMapper_convert(instance, landmarkname), landmarkname)

\* Line 68.
convert(instance, landmarkname) ==
    get_value_or(LandmarkMapper_convert(instance, landmarkname), "")

\* Lines 67-69: Python calls convert of a mapper.
CallConvert ==
    /\ py_pc = "python"
    /\ dpc = "python"
    /\ \E instance \in Mappers, landmarkname \in LandmarkNames :
          /\ py_call' = [function |-> "convert", instance |-> instance,
                         landmarkname |-> landmarkname]
          /\ py_object' = instance
          /\ py_return' = convert(instance, landmarkname)
    /\ py_pc' = "returned"
    /\ UNCHANGED py_passed
    /\ UNCHANGED <<solver, driver, threads>>

PythonNext ==
    \/ DriverNext
    \/ CallEstimateOrthographicProjectionLinear
    \/ FitPoseAssertFails
    \/ CallFitPose
    \/ EstimationFails
    \/ EstimationReturns
    \/ GetState
    \/ SetStateOfPickle
    \/ SetState
    \/ CallConvert

SpecPython == Init /\ [][PythonNext]_vars

\* C22: the bindings turn the sentinel integers into optionals.  What
\* fit_shape_and_pose passes as the number of shape coefficients is unset
\* exactly when num_shape_coefficients_to_fit is -1 and is every other value
\* itself; what estimate_orthographic_projection_linear passes as the height
\* of the viewport is unset exactly when viewport_height is 0, whatever
\* is_viewport_upsidedown is, and is every other value itself.
C22_SentinelsBecomeUnset ==
    /\ driver_args # NoDriverArgs =>
          /\ driver_args.num_shape_coefficients_to_fit = none
                <=> binding_args.num_shape_coefficients_to_fit = -1
          /\ binding_args.num_shape_coefficients_to_fit # -1 =>
                driver_args.num_shape_coefficients_to_fit
                   = Some(binding_args.num_shape_coefficients_to_fit)
    /\ py_call.function = "estimate_orthographic_projection_linear" =>
          /\ py_passed.viewport_height = none <=> py_call.viewport_height = 0
          /\ py_call.viewport_height # 0 =>
                py_passed.viewport_height = Some(py_call.viewport_height)
          /\ py_call.omitted => py_passed.viewport_height = none
          /\ py_passed.is_viewport_upsidedown = py_call.is_viewport_upsidedown

C22_Witness ==
    /\ py_pc = "callee"
    /\ py_call.function = "estimate_orthographic_projection_linear"
    /\ py_call.is_viewport_upsidedown
    /\ py_call.viewport_height = 0
    /\ py_passed.viewport_height = none

\* The collection at position j of what the driver is given pairs, place by
\* place, the identifiers with the landmarks of image j.
CollectionAligned(collection, landmarks, landmark_ids) ==
    /\ Len(collection) = Len(landmark_ids)
    /\ \A i \in DOMAIN landmark_ids :
          /\ i \in DOMAIN landmarks
          /\ collection[i] = [name |-> landmark_ids[i],
                              coordinates |-> <<landmarks[i].x, landmarks[i].y>>]

\* C23: in the binding of fit_shape_and_pose, once the assertion of line
\* 249 has passed, the collection built for every image j has at every
\* position i the identifier landmark_ids[i] paired with landmarkss[j][i],
\* every collection is as long as landmark_ids, and landmark_ids is not read
\* at or beyond its length for any image.
C23_CollectionsAligned ==
    /\ (dpc = "binding" /\ BindingAssertion(binding_args)) =>
          IdReadsInRange(binding_args)
    /\ dpc # "crashed"
    /\ driver_args # NoDriverArgs =>
          \A j \in DOMAIN binding_args.landmarkss :
             CollectionAligned(driver_args.landmarks[j], binding_args.landmarkss[j],
                               binding_args.landmark_ids)

\* What does hold: the collection of the first image, and the one
\* collection of fit_pose, are aligned with the identifiers.
FirstCollectionAligned ==
    /\ driver_args # NoDriverArgs =>
          CollectionAligned(driver_args.landmarks[1], binding_args.landmarkss[1],
                            binding_args.landmark_ids)
    /\ (py_call.function = "fit_pose" /\ py_pc # "aborted") =>
          CollectionAligned(py_passed.landmarks, py_call.landmarks,
                            py_call.landmark_ids)

\* A later image has fewer landmarks than there are identifiers and the
\* driver is given a shorter collection for it.
ShorterCollectionPassed ==
    /\ dpc = "returned"
    /\ \E j \in DOMAIN driver_args.landmarks :
          Len(driver_args.landmarks[j]) < Len(binding_args.landmark_ids)

\* C24: pickling a pose and reading it back gives the same pose:
\* __setstate__ of what __getstate__ returned has the same kind of camera,
\* frustum (l, r, b, t), quaternion (x, y, z, w), translation (t_x, t_y)
\* and screen width and height; the tuple holds the quaternion in the order
\* x, y, z, w and the kind of camera as 0 for orthographic and 1 for
\* perspective.
C24_PoseRoundTrips ==
    (py_call.function = "__getstate__" /\ py_call.class = "RenderingParameters") =>
       LET p == py_call.self
       IN  /\ py_return[1] = PyInt(IF p.camera_type = "Orthographic" THEN 0 ELSE 1)
           /\ py_return[3] = << PyFloat(p.rotation.x), PyFloat(p.rotation.y),
                                PyFloat(p.rotation.z), PyFloat(p.rotation.w) >>
           /\ py_pc # "raised"
           /\ py_pc = "returned" =>
                 /\ py_object.camera_type = p.camera_type
                 /\ py_object.frustum = p.frustum
                 /\ py_object.rotation = p.rotation
                 /\ py_object.t_x = p.t_x /\ py_object.t_y = p.t_y
                 /\ py_object.screen_width = p.screen_width
                 /\ py_object.screen_height = p.screen_height
                 /\ py_object = p

C24_Witness ==
    /\ py_pc = "returned"
    /\ py_call.function = "__getstate__" /\ py_call.class = "RenderingParameters"
    /\ py_call.self.camera_type = "Perspective"
    /\ py_call.self.rotation.w # py_call.self.rotation.x
    /\ py_object = py_call.self

\* C25: pickling a mesh and reading it back gives the same mesh: the same
\* vertices, colors, texcoords, tvi and tci; the tuple is written in the
\* order vertices, colors, texcoords, tvi, tci, which is the order it is
\* read in.
C25_MeshRoundTrips ==
    (py_call.function = "__getstate__" /\ py_call.class = "Mesh") =>
       LET p == py_call.self
       IN  /\ py_return = << FloatVectorsToPython(p.vertices),
                             FloatVectorsToPython(p.colors),
                             FloatVectorsToPython(p.texcoords),
                             IntArraysToPython(p.tvi), IntArraysToPython(p.tci) >>
           /\ py_pc # "raised"
           /\ py_pc = "returned" =>
                 /\ py_object.vertices = p.vertices
                 /\ py_object.colors = p.colors
                 /\ py_object.texcoords = p.texcoords
                 /\ py_object.tvi = p.tvi
                 /\ py_object.tci = p.tci

C25_Witness ==
    /\ py_pc = "returned"
    /\ py_call.function = "__getstate__" /\ py_call.class = "Mesh"
    /\ py_call.self.tvi # py_call.self.tci
    /\ py_call.self.colors # <<>>
    /\ py_object = py_call.self

\* The size of the state __setstate__ of a class takes.
StateSize(class) == IF class = "Mesh" THEN 5 ELSE 7

\* C26: __setstate__ rejects a state of the wrong size, 5 for a mesh and 7
\* for a pose, with "Invalid state!", and it does so before it constructs
\* or changes the object: the object is then what it was before the call.
C26_WrongSizeRejected ==
    py_call.function = "__setstate__" =>
       /\ Len(py_passed) # StateSize(py_call.class) =>
             /\ py_pc = "raised"
             /\ py_return = Some("Invalid state!")
             /\ py_object = py_call.self
       /\ Len(py_passed) = StateSize(py_call.class) => py_pc = "returned"

C26_Witness ==
    /\ py_pc = "raised"
    /\ py_call.function = "__setstate__" /\ py_call.class = "Mesh"
    /\ py_call.self # EmptyMesh
    /\ Len(py_passed) = 6
    /\ py_object = py_call.self

\* C27: LandmarkMapper.convert returns the mapped name when the mapper has
\* a mapping for the name it is given and the empty string when it has
\* none; it does not raise for a name it does not know and it does not
\* return the name another landmark is mapped to.  The identity mapper maps
\* every name to itself.
C27_ConvertMappedOrEmpty ==
    py_call.function = "convert" =>
       LET instance == py_call.instance
           name == py_call.landmarkname
       IN  /\ py_pc = "returned"
           /\ py_object = instance
           /\ instance.identity => py_return = name
           /\ ~instance.identity =>
                 /\ name \in DOMAIN instance.mappings =>
                       py_return = instance.mappings[name]
                 /\ name \notin DOMAIN instance.mappings => py_return = ""
                 /\ \A other \in DOMAIN instance.mappings :
                       py_return = instance.mappings[other] => other = name

C27_Witness ==
    /\ py_pc = "returned"
    /\ py_call.function = "convert"
    /\ ~py_call.instance.identity
    /\ py_call.instance.mappings # <<>>
    /\ py_call.landmarkname = "61"
    /\ py_return = ""

\* C28: fit_shape_to_landmarks_linear_multi does not read base_face[k] at
\* or beyond the length of the list: a call that has passed the assertions
\* of lines 64-65 has one entry of base_face for every image, and a call
\* with fewer entries than images is rejected, not read out of range.
C28_BaseFaceReadInRange ==
    /\ pc \in {"loop", "done", "crashed"} => Len(args.base_face) = num_images(args)
    /\ (pc = "loop" /\ k < num_images(args) /\ ImageCardinalitiesAgree(args, k)) =>
          k < Len(base_face)
    /\ pc # "crashed"

\* Two images and one base face: the call is in the loop, at the second
\* image, and line 112 reads base_face[1] of a list of one.
SecondFaceReadOutOfRange ==
    /\ pc = "loop"
    /\ num_images(args) = 2 /\ Len(args.base_face) = 1
    /\ k = 1 /\ ImageCardinalitiesAgree(args, k)
    /\ ~HasBaseFace(Locals, k)

(***************************************************************************)
(* Calls that ask for more of the model than it has: more coefficients     *)
(* than it has components, or a vertex beyond its last.  Every list is     *)
(* as long as the others and every image has a base face, so that the      *)
(* assertions of lines 64-65 and 108 hold and base_face[k] is in range.    *)
(***************************************************************************)
\* The vertex ids asked for: the last vertex of the model and one beyond.
AskedVertexIds == {NumVertices - 1, NumVertices}

AskedImages ==
    {[camera |-> CamA,
      correspondences |-> [i \in 1..Len(ids) |->
                             [point |-> Vec(<<2, 1>>), vertex_id |-> ids[i]]]] :
        ids \in SeqsUpTo(AskedVertexIds, MaxTotalLandmarks)}

AskedImageLists ==
    {il \in SeqsUpTo(AskedImages, MaxImages) :
        SumLen([j \in DOMAIN il |-> il[j].correspondences]) <= MaxTotalLandmarks}

\* The coefficient counts asked for: all, as many as the model has, and
\* one more.
AskedCounts ==
    {none, Some(get_num_principal_components), Some(get_num_principal_components + 1)}

AskedCalls ==
    {MultiArgs([j \in DOMAIN il |-> il[j].camera],
               [j \in DOMAIN il |-> PointsOf(il[j].correspondences)],
               [j \in DOMAIN il |-> VertexIdsOf(il[j].correspondences)],
               [j \in DOMAIN il |-> EmptyFace],
               Option(1, n, none, none)) :
        il \in AskedImageLists, n \in AskedCounts}

\* A caller calls fit_shape_to_landmarks_linear_multi.
CallMultiAsking ==
    /\ pc = "caller"
    /\ \E a \in AskedCalls : args' = a /\ lambda' = a.lambda
    /\ base_face' = args'.base_face
    /\ pc' = "entry"
    /\ UNCHANGED <<driver, threads, python>>
    /\ UNCHANGED <<linear_call, k, V_hat_h, V_hat_h_row_index, P_coefficients, P_index,
                   y, y_index, v_bar, v_bar_index, Omega, wrote, solved>>

\* Lines 120-121 and 150 for an image that asks for a column or a vertex
\* the model has not: Eigen's own assertion on the block or the index fails,
\* in the iteration for that image.
LoopModelReadAborts ==
    /\ pc = "loop"
    /\ k < num_images(args)
    /\ ImageCardinalitiesAgree(args, k)
    /\ HasBaseFace(Locals, k)
    /\ ~ModelReadsInRange(args, k)
    /\ pc' = "aborted"
    /\ UNCHANGED <<driver, threads, python>>
    /\ UNCHANGED <<linear_call, args, lambda, k, locals, solved>>

AskingNext ==
    \/ CallMultiAsking
    \/ Enter
    \/ LoopIteration
    \/ LoopModelReadAborts
    \/ SolveAndReturn

SpecAsking == Init /\ [][AskingNext]_vars

\* C29: the solver reads of the model only what is in it, and a call that
\* asks for more coefficients than the model has components, or for a
\* vertex the model has not, is rejected at the start of the call: no such
\* call gets to the loop or returns.
C29_OutOfModelRejectedAtStart ==
    pc \in {"loop", "done"} =>
       /\ num_coeffs_to_fit(args) <= get_num_principal_components
       /\ \A j \in DOMAIN args.vertex_ids : \A i \in DOMAIN args.vertex_ids[j] :
             args.vertex_ids[j][i] \in 0..(NumVertices - 1)

\* A call without landmarks that asks for one coefficient more than the
\* model has components returns that many coefficients.
MoreCoefficientsReturned ==
    /\ pc = "done"
    /\ num_images(args) >= 1
    /\ Size(result[1]) = get_num_principal_components + 1

\* What is read is in the model: every row of V_hat_h that was written
\* was written for an image that asks only for what the model has.
ReadsStayInModel ==
    \A w \in wrote : w[1] = "V_hat_h" => ModelReadsInRange(args, w[3])
====
